---------------------------- MODULE Spec2Model ----------------------------
(***************************************************************************)
(* Model of imgex's layer-overlay engine and archive serializer            *)
(* (lib/filesystem.go: applyLayers, handleWhiteout, cleanPath,             *)
(* sortTarEntries, getTypePriority, writeFilesystemTar).                   *)
(* The export call around them (ExportImageFilesystemToWriter), the output *)
(* file of ExportImageFilesystem, and the C library (clib/exports.go) with *)
(* its stored last error and its auth_json argument are modelled too.      *)
(*                                                                         *)
(* A Go string is a sequence of one-character strings; Ord gives the byte  *)
(* value of a character, so that prefix tests, separator counts and the    *)
(* lexicographic comparison of names are computed on the characters.       *)
(***************************************************************************)
EXTENDS Integers, Sequences, FiniteSets, TLC

VARIABLES
    pc,            \* position of the export call: Idle, Applying, Sorting, Writing,
                   \* Done, Error
    layerIdx,      \* i of applyLayers' loop over layers
    reading,       \* TRUE while the tar stream of layer layerIdx is being read
    openStreams,   \* layer streams obtained and not yet closed (deferred Close)
    closedStreams, \* the layer streams closed so far, in the order of the Close calls
    nread,         \* number of tar entries applied so far, over all layers
    filesystem,    \* the map normalized path -> *fileEntry built by applyLayers
    hist,          \* the headers read so far, in order, with their layer (history)
    sortedEntries, \* the slice sortTarEntries returned (references into filesystem)
    written,       \* what the tar writer has put on the sink, in order
    trailer,       \* what became of the deferred tarWriter.Close: "none" while it
                   \* has not written, "written" or "rejected" for the padding
                   \* and end-of-archive blocks it flushes to the sink
    err,           \* the error the call returned: its message, the layer index
                   \* and the entry name the message holds (a set, empty when it
                   \* holds none)
    calls,         \* the export calls that run at once, each with its own position,
                   \* layer streams, map, output and history of what it read
    credSent,      \* the credentials remote.Image has presented: which registry
                   \* got them and the AuthConfig they came from (history)
    outFile,       \* the output file of ExportImageFilesystem: whether os.Create
                   \* was called and what it met, the file at outputPath, the
                   \* file.Close calls and what the function returned
    lastError,     \* the C library's stored error message, "" when none
    clog,          \* the calls the C caller has made, in order, with what each
                   \* returned (history)
    threads,       \* the threads that call the C library at once: where each is,
                   \* the error its last call met, what get_last_error gave it
    ccalls         \* the calls of the C library with their auth_json argument:
                   \* what each did on the way and what it returned (history)

\* the state of the C library
clibVars == <<lastError, clog, threads, ccalls>>

\* the state of the export calls
exportVars == <<pc, layerIdx, reading, openStreams, nread, filesystem, hist,
                sortedEntries, written, trailer, err, calls, credSent,
                closedStreams, outFile>>

vars == <<pc, layerIdx, reading, openStreams, nread, filesystem, hist,
          sortedEntries, written, trailer, err, calls, credSent, closedStreams,
          outFile, lastError, clog, threads, ccalls>>

---------------------------------------------------------------------------
(* Bounds of the model *)

\* layers in one image
MaxLayers == 2
\* tar headers read over all layers, overlay specification
MaxOps == 3
\* tar headers read over all layers, serializer specification
MaxTarOps == 4
\* length of an entry name, path specification
MaxNameLen == 4
\* tar headers read over all layers, path specification
MaxPathOps == 1
\* calls of the C library by its one caller
MaxCalls == 3
\* threads that call the C library at once
MaxThreads == 2
\* tar headers one of the export calls that run at once reads
MaxCallOps == 2
\* tar headers read over all layers, marker specification
MaxMarkerOps == 3
\* tar headers read over all layers, frame specification
MaxFrameOps == 3
\* tar headers read over all layers, marker-consumption specification
MaxConsumeOps == 3
\* tar headers read over all layers, output-file specification
MaxFileOps == 3
\* calls of the C library with an auth_json argument
MaxAuthCalls == 2
\* tar headers read over all layers, termination specification
MaxLiveOps == 2

---------------------------------------------------------------------------
(* Strings *)

\* byte value of a character
Ord(c) ==
    CASE c = "." -> 46 [] c = "/" -> 47
      [] c = "a" -> 97 [] c = "b" -> 98 [] c = "c" -> 99 [] c = "d" -> 100
      [] c = "e" -> 101 [] c = "f" -> 102 [] c = "h" -> 104 [] c = "i" -> 105
      [] c = "l" -> 108 [] c = "o" -> 111 [] c = "p" -> 112 [] c = "q" -> 113
      [] c = "s" -> 115 [] c = "t" -> 116 [] c = "u" -> 117 [] c = "w" -> 119
      [] c = "x" -> 120 [] c = "y" -> 121 [] c = "z" -> 122

Slash == <<"/">>
Dot == <<".">>
DotDot == <<".", ".">>

MinOf(S) == CHOOSE x \in S : \A y \in S : x <= y
MaxOf(S) == CHOOSE x \in S : \A y \in S : x >= y

\* strings.HasPrefix(s, prefix)
HasPrefix(s, prefix) ==
    /\ Len(prefix) <= Len(s)
    /\ SubSeq(s, 1, Len(prefix)) = prefix

\* strings.TrimPrefix(s, prefix)
TrimPrefix(s, prefix) ==
    IF HasPrefix(s, prefix) THEN SubSeq(s, Len(prefix) + 1, Len(s)) ELSE s

\* strings.Count(s, "/")
CountSlash(s) == Cardinality({i \in 1..Len(s) : s[i] = "/"})

\* Go's s < t on strings: bytewise lexicographic
StrLess(s, t) ==
    LET n == IF Len(s) < Len(t) THEN Len(s) ELSE Len(t)
        diff == {i \in 1..n : s[i] # t[i]}
    IN  IF diff = {} THEN Len(s) < Len(t)
        ELSE Ord(s[MinOf(diff)]) < Ord(t[MinOf(diff)])

\* index of the last "/" of s, 0 when there is none (strings.LastIndex + 1)
LastSlash(s) ==
    LET at == {i \in 1..Len(s) : s[i] = "/"}
    IN  IF at = {} THEN 0 ELSE MaxOf(at)

\* the components of s between separators, empty ones included
RECURSIVE SplitSlash(_)
SplitSlash(s) ==
    LET at == {i \in 1..Len(s) : s[i] = "/"}
    IN  IF at = {} THEN <<s>>
        ELSE <<SubSeq(s, 1, MinOf(at) - 1)>>
                 \o SplitSlash(SubSeq(s, MinOf(at) + 1, Len(s)))

\* the components joined by "/"
RECURSIVE JoinSlash(_)
JoinSlash(cs) ==
    IF cs = <<>> THEN <<>>
    ELSE IF Len(cs) = 1 THEN cs[1]
    ELSE cs[1] \o Slash \o JoinSlash(Tail(cs))

\* path.Clean's pass over the components: "" and "." are dropped, ".." removes
\* the component before it (dropped at the root, kept when nothing precedes)
RECURSIVE CleanComps(_, _, _)
CleanComps(cs, out, rooted) ==
    IF cs = <<>> THEN out
    ELSE LET c == Head(cs)
             rest == Tail(cs)
         IN  IF c = <<>> \/ c = Dot THEN CleanComps(rest, out, rooted)
             ELSE IF c = DotDot
                  THEN IF out # <<>> /\ out[Len(out)] # DotDot
                       THEN CleanComps(rest, SubSeq(out, 1, Len(out) - 1), rooted)
                       ELSE IF rooted THEN CleanComps(rest, out, rooted)
                       ELSE CleanComps(rest, Append(out, c), rooted)
             ELSE CleanComps(rest, Append(out, c), rooted)

\* path.Clean(p)
PathClean(p) ==
    IF p = <<>> THEN Dot
    ELSE LET rooted == p[1] = "/"
             body == JoinSlash(CleanComps(SplitSlash(p), <<>>, rooted))
             res == IF rooted THEN Slash \o body ELSE body
         IN  IF res = <<>> THEN Dot ELSE res

\* s without its trailing separators
RECURSIVE StripTrailingSlashes(_)
StripTrailingSlashes(s) ==
    IF s # <<>> /\ s[Len(s)] = "/"
    THEN StripTrailingSlashes(SubSeq(s, 1, Len(s) - 1))
    ELSE s

\* path.Base(p)
PathBase(p) ==
    IF p = <<>> THEN Dot
    ELSE LET s == StripTrailingSlashes(p)
         IN  IF s = <<>> THEN Slash
             ELSE SubSeq(s, LastSlash(s) + 1, Len(s))

\* path.Dir(p)
PathDir(p) == PathClean(SubSeq(p, 1, LastSlash(p)))

\* path.Join(a, b)
PathJoin(a, b) ==
    IF a = <<>> /\ b = <<>> THEN <<>>
    ELSE IF a = <<>> THEN PathClean(b)
    ELSE IF b = <<>> THEN PathClean(a)
    ELSE PathClean(a \o Slash \o b)

---------------------------------------------------------------------------
(* Names, headers and entries *)

WhPrefix == <<".", "w", "h", ".">>
OpaqueName == <<".", "w", "h", ".", ".", "w", "h", ".", ".", "o", "p", "q">>

\* a *tar.Header as the layer's tar reader returns it
Hdr(name, flag, link, size) ==
    [Name |-> name, Typeflag |-> flag, Linkname |-> link, Size |-> size,
     ModTime |-> "layer", AccessTime |-> "layer", ChangeTime |-> "layer"]

\* the header h with the times a reader of another archive format gives it
WithTimes(h, m, a, c) ==
    [h EXCEPT !.ModTime = m, !.AccessTime = a, !.ChangeTime = c]

\* one item of a layer's stream: a header and the payload that follows it
Item(name, flag, link, payload) ==
    [hdr |-> Hdr(name, flag, link, Len(payload)), data |-> payload]

\* type fileEntry struct { header *tar.Header; data []byte }
fileEntry(h, d) == [header |-> h, data |-> d]

EmptyMap == [k \in {} |-> {}]

\* m with key k set to e (Go: m[k] = e)
MapPut(m, k, e) ==
    [x \in DOMAIN m \cup {k} |-> IF x = k THEN e ELSE m[x]]

\* m without the keys of gone (Go: delete(m, k) for each k of gone)
MapDelete(m, gone) == [x \in DOMAIN m \ gone |-> m[x]]

---------------------------------------------------------------------------
(* The overlay engine *)

\* cleanPath without the root case: the empty result is kept
cleanPath_NoRoot(filePath) == TrimPrefix(filePath, Slash)

\* cleanPath normalizes a file path: the leading slash is removed, "" is "."
cleanPath(filePath) ==
    LET cleaned == TrimPrefix(filePath, Slash)
    IN  IF cleaned = <<>> THEN Dot ELSE cleaned

\* isWhiteoutFile: the base name starts with ".wh."
isWhiteoutFile(filename) == HasPrefix(PathBase(filename), WhPrefix)

\* the keys an opaque whiteout named whiteoutPath deletes
OpaqueDeleted(fs, whiteoutPath) ==
    LET dir == PathDir(whiteoutPath)
        prefix == IF dir = Dot THEN <<>> ELSE dir \o Slash
    IN  {filePath \in DOMAIN fs : HasPrefix(filePath, prefix)}

\* the target of a regular whiteout named whiteoutPath
WhiteoutTarget(whiteoutPath) ==
    cleanPath(PathJoin(PathDir(whiteoutPath),
                       TrimPrefix(PathBase(whiteoutPath), WhPrefix)))

\* RegularDeleted whose prefix test has no separator after the target
RegularDeleted_NoSeparator(fs, whiteoutPath) ==
    LET target == WhiteoutTarget(whiteoutPath)
    IN  {filePath \in DOMAIN fs : HasPrefix(filePath, target)}

\* the keys a regular whiteout named whiteoutPath deletes
RegularDeleted(fs, whiteoutPath) ==
    LET target == WhiteoutTarget(whiteoutPath)
        prefix == target \o Slash
    IN  {filePath \in DOMAIN fs :
            filePath = target \/ HasPrefix(filePath, prefix)}

\* handleWhiteout(filesystem, whiteoutPath): the map after the marker
handleWhiteout(fs, whiteoutPath) ==
    LET base == PathBase(whiteoutPath)
    IN  IF base = OpaqueName
        THEN MapDelete(fs, OpaqueDeleted(fs, whiteoutPath))
        ELSE IF HasPrefix(base, WhPrefix)
        THEN MapDelete(fs, RegularDeleted(fs, whiteoutPath))
        ELSE fs

\* the data applyLayers keeps for a header: the payload of a regular file
EntryData(h, payload) == IF h.Typeflag = "Reg" THEN payload ELSE <<>>

\* InsertInto with the header's name as the key, cleanPath left out
InsertInto_RawKey(fs, h, payload) ==
    MapPut(fs, h.Name, fileEntry(h, EntryData(h, payload)))

\* InsertInto that keeps the entry a path already has
InsertInto_KeepFirst(fs, h, payload) ==
    IF cleanPath(h.Name) \in DOMAIN fs THEN fs
    ELSE MapPut(fs, cleanPath(h.Name), fileEntry(h, EntryData(h, payload)))

\* InsertInto whose key has no trailing separator either
InsertInto_DirKey(fs, h, payload) ==
    MapPut(fs, StripTrailingSlashes(cleanPath(h.Name)),
           fileEntry(h, EntryData(h, payload)))

\* the map after an ordinary entry: filesystem[cleanPath(header.Name)] = entry
InsertInto(fs, h, payload) ==
    MapPut(fs, cleanPath(h.Name), fileEntry(h, EntryData(h, payload)))

\* DeferredCloses that closes the stream opened last and no other
DeferredCloses_LastOnly(open) ==
    IF open = {} THEN <<>> ELSE <<MaxOf(open)>>

\* the Close calls that run when applyLayers returns: one for each defer
\* statement executed, the last deferred first
DeferredCloses(open) ==
    [i \in 1..Cardinality(open) |->
        CHOOSE x \in open : Cardinality({y \in open : y > x}) = i - 1]

\* layer.Uncompressed() succeeds: the stream of layer layerIdx is open, its
\* Close is deferred to the return of applyLayers
OpenLayer ==
    /\ pc = "Applying"
    /\ ~reading
    /\ layerIdx < MaxLayers
    /\ reading' = TRUE
    /\ openStreams' = openStreams \cup {layerIdx}
    /\ UNCHANGED <<clibVars, outFile, credSent, closedStreams, calls, trailer, pc, layerIdx, nread, filesystem, sortedEntries, written, err>>

\* layer.Uncompressed() fails: applyLayers returns (nil, error)
OpenLayerFail ==
    /\ pc = "Applying"
    /\ ~reading
    /\ layerIdx < MaxLayers
    /\ pc' = "Error"
    /\ err' = [msg |-> "failed to get layer content", layer |-> {layerIdx}, path |-> {}]
    /\ filesystem' = EmptyMap
    /\ openStreams' = {}
    /\ closedStreams' = closedStreams \o DeferredCloses(openStreams)
    /\ UNCHANGED <<clibVars, outFile, credSent, calls, trailer, layerIdx, reading, nread, sortedEntries, written>>

\* one iteration of the loop over tarReader.Next(): an ordinary entry
InsertEntry(in, max) ==
    /\ pc = "Applying"
    /\ reading
    /\ nread < max
    /\ ~isWhiteoutFile(in.hdr.Name)
    /\ filesystem' = InsertInto(filesystem, in.hdr, in.data)
    /\ nread' = nread + 1
    /\ UNCHANGED <<clibVars, outFile, credSent, closedStreams, calls, trailer, pc, layerIdx, reading, openStreams, sortedEntries, written, err>>

\* Whiteout that goes on to read the marker's content and to insert it
Whiteout_Stores(in, max) ==
    /\ pc = "Applying"
    /\ reading
    /\ nread < max
    /\ isWhiteoutFile(in.hdr.Name)
    /\ filesystem' = InsertInto(handleWhiteout(filesystem, in.hdr.Name), in.hdr, in.data)
    /\ nread' = nread + 1
    /\ UNCHANGED <<clibVars, outFile, credSent, closedStreams, calls, trailer, pc, layerIdx, reading, openStreams, sortedEntries, written, err>>

\* one iteration of the loop over tarReader.Next(): a whiteout file
Whiteout(in, max) ==
    /\ pc = "Applying"
    /\ reading
    /\ nread < max
    /\ isWhiteoutFile(in.hdr.Name)
    /\ filesystem' = handleWhiteout(filesystem, in.hdr.Name)
    /\ nread' = nread + 1
    /\ UNCHANGED <<clibVars, outFile, credSent, closedStreams, calls, trailer, pc, layerIdx, reading, openStreams, sortedEntries, written, err>>

\* EndOfLayer that stays at the layer it has just read
EndOfLayer_SameLayer ==
    /\ pc = "Applying"
    /\ reading
    /\ reading' = FALSE
    /\ UNCHANGED <<clibVars, outFile, credSent, closedStreams, calls, trailer, pc, layerIdx, openStreams, nread, filesystem, sortedEntries,
                   written, err>>

\* EndOfLayer that starts over at the first layer
EndOfLayer_Restart ==
    /\ pc = "Applying"
    /\ reading
    /\ reading' = FALSE
    /\ layerIdx' = 0
    /\ UNCHANGED <<clibVars, outFile, credSent, closedStreams, calls, trailer, pc, openStreams, nread, filesystem, sortedEntries, written, err>>

\* tarReader.Next() returns io.EOF: the loop goes on to the next layer
EndOfLayer ==
    /\ pc = "Applying"
    /\ reading
    /\ reading' = FALSE
    /\ layerIdx' = layerIdx + 1
    /\ UNCHANGED <<clibVars, outFile, credSent, closedStreams, calls, trailer, pc, openStreams, nread, filesystem, sortedEntries, written, err>>

\* tarReader.Next() fails: applyLayers returns (nil, error), the message
\* has the index of the layer
ReadFail ==
    /\ pc = "Applying"
    /\ reading
    /\ err' = [msg |-> "failed to read layer tar", layer |-> {layerIdx}, path |-> {}]
    /\ pc' = "Error"
    /\ filesystem' = EmptyMap
    /\ reading' = FALSE
    /\ openStreams' = {}
    /\ closedStreams' = closedStreams \o DeferredCloses(openStreams)
    /\ UNCHANGED <<clibVars, outFile, credSent, calls, trailer, layerIdx, nread, sortedEntries, written>>

\* ReadDataFail that hands back the map built so far with the error
ReadDataFail_PartialMap ==
    /\ pc = "Applying"
    /\ reading
    /\ err' = [msg |-> "failed to read file data", layer |-> {}, path |-> {}]
    /\ pc' = "Error"
    /\ reading' = FALSE
    /\ openStreams' = {}
    /\ closedStreams' = closedStreams \o DeferredCloses(openStreams)
    /\ UNCHANGED <<clibVars, outFile, credSent, calls, trailer, layerIdx, nread, filesystem, sortedEntries, written>>

\* io.ReadFull of a regular file's content fails: applyLayers returns
\* (nil, error), the message is "failed to read file data: ..." and no more
ReadDataFail ==
    /\ pc = "Applying"
    /\ reading
    /\ err' = [msg |-> "failed to read file data", layer |-> {}, path |-> {}]
    /\ pc' = "Error"
    /\ filesystem' = EmptyMap
    /\ reading' = FALSE
    /\ openStreams' = {}
    /\ closedStreams' = closedStreams \o DeferredCloses(openStreams)
    /\ UNCHANGED <<clibVars, outFile, credSent, calls, trailer, layerIdx, nread, sortedEntries, written>>

\* the loop over layers ends: applyLayers returns the map, the deferred
\* Close calls run
ApplyDone ==
    /\ pc = "Applying"
    /\ ~reading
    /\ pc' = "Sorting"
    /\ openStreams' = {}
    /\ closedStreams' = closedStreams \o DeferredCloses(openStreams)
    /\ UNCHANGED <<clibVars, outFile, credSent, calls, trailer, layerIdx, reading, nread, filesystem, sortedEntries, written, err>>

NoError == [msg |-> "", layer |-> {}, path |-> {}]

\* the export calls that run at once
Exports == {"A", "B"}

\* an export call at the call of applyLayers
NewCall ==
    [pc |-> "Applying", layerIdx |-> 0, reading |-> FALSE,
     filesystem |-> EmptyMap, hist |-> <<>>, out |-> <<>>]

\* the state at the call of applyLayers
Init ==
    /\ pc = "Applying"
    /\ layerIdx = 0
    /\ reading = FALSE
    /\ openStreams = {}
    /\ closedStreams = <<>>
    /\ nread = 0
    /\ filesystem = EmptyMap
    /\ hist = <<>>
    /\ sortedEntries = <<>>
    /\ written = <<>>
    /\ trailer = "none"
    /\ err = NoError
    /\ calls = [c \in Exports |-> NewCall]
    /\ credSent = {}
    /\ outFile = [state |-> "none", exists |-> FALSE, kept |-> FALSE, closes |-> 0,
                  closeFailed |-> FALSE, returned |-> NoError]
    /\ ccalls = <<>>
    /\ lastError = ""
    /\ clog = <<>>
    /\ threads = [t \in 1..MaxThreads |->
                     [pc |-> "idle", failure |-> [isNil |-> TRUE, text |-> ""],
                      got |-> [kind |-> "void", str |-> ""]]]

---------------------------------------------------------------------------
(* Inputs of the overlay specification *)

n_d == <<"d">>
n_dS == <<"d", "/">>
n_d_x == <<"d", "/", "x">>
n_Sd_x == <<"/", "d", "/", "x">>
n_d_y == <<"d", "/", "y">>
n_d_sub == <<"d", "/", "s", "u", "b">>
n_d_subS == <<"d", "/", "s", "u", "b", "/">>
n_d_sub_f == <<"d", "/", "s", "u", "b", "/", "f">>
n_wh_d == WhPrefix \o n_d
n_d_wh_sub == n_dS \o WhPrefix \o <<"s", "u", "b">>
n_d_opq == n_dS \o OpaqueName
n_Dd_sub_f == <<".", "/">> \o n_d_sub_f
n_Dd_wh_sub == <<".", "/">> \o n_d_wh_sub
n_opq == OpaqueName

OverlayInputs ==
    { Item(n_d, "Dir", <<>>, <<>>),
      Item(n_dS, "Dir", <<>>, <<>>),
      Item(n_d_x, "Reg", <<>>, <<1>>),
      Item(n_Sd_x, "Reg", <<>>, <<2>>),
      Item(n_d_y, "Reg", <<>>, <<2>>),
      Item(n_d_sub, "Symlink", n_d_x, <<>>),
      Item(n_d_subS, "Dir", <<>>, <<>>),
      Item(n_d_sub_f, "Reg", <<>>, <<>>),
      Item(n_wh_d, "Reg", <<>>, <<>>),
      Item(n_d_wh_sub, "Reg", <<>>, <<>>),
      Item(n_d_opq, "Reg", <<>>, <<>>),
      Item(n_opq, "Reg", <<>>, <<>>),
      Item(n_Dd_sub_f, "Reg", <<>>, <<1>>),
      Item(n_Dd_wh_sub, "Reg", <<>>, <<>>) }

\* the history gets the item just read
Record(in) == hist' = Append(hist, [layer |-> layerIdx, hdr |-> in.hdr, data |-> in.data])

\* applyLayers on streams that are read without an error, with the history
\* of what was read; the error returns are steps of NextTar
Next ==
    \/ OpenLayer /\ UNCHANGED hist
    \/ \E in \in OverlayInputs : InsertEntry(in, MaxOps) /\ Record(in)
    \/ \E in \in OverlayInputs : Whiteout(in, MaxOps) /\ Record(in)
    \/ EndOfLayer /\ UNCHANGED hist
    \/ ApplyDone /\ UNCHANGED hist

Spec == Init /\ [][Next]_vars

---------------------------------------------------------------------------
(* The archive serializer *)

\* getTypePriority without the case of the links
getTypePriority_NoLinkCase(typeflag) ==
    CASE typeflag = "Dir" -> 1
      [] typeflag = "Reg" -> 2
      [] OTHER -> 2

\* getTypePriority: lower numbers are written first
getTypePriority(typeflag) ==
    CASE typeflag = "Dir" -> 1
      [] typeflag = "Reg" -> 2
      [] typeflag \in {"Symlink", "Link"} -> 3
      [] OTHER -> 2

\* entryLess without the comparison of directory depths
entryLess_NoDepth(entryA, entryB) ==
    IF getTypePriority(entryA.header.Typeflag) # getTypePriority(entryB.header.Typeflag)
    THEN getTypePriority(entryA.header.Typeflag) < getTypePriority(entryB.header.Typeflag)
    ELSE StrLess(entryA.header.Name, entryB.header.Name)

\* entryLess that orders directories by depth alone
entryLess_DepthOnly(entryA, entryB) ==
    IF getTypePriority(entryA.header.Typeflag) # getTypePriority(entryB.header.Typeflag)
    THEN getTypePriority(entryA.header.Typeflag) < getTypePriority(entryB.header.Typeflag)
    ELSE IF entryA.header.Typeflag = "Dir" /\ entryB.header.Typeflag = "Dir"
         THEN CountSlash(entryA.header.Name) < CountSlash(entryB.header.Name)
         ELSE StrLess(entryA.header.Name, entryB.header.Name)

\* the less function sortTarEntries gives sort.Slice
entryLess(entryA, entryB) ==
    LET priorityA == getTypePriority(entryA.header.Typeflag)
        priorityB == getTypePriority(entryB.header.Typeflag)
        pathA == entryA.header.Name
        pathB == entryB.header.Name
    IN  IF priorityA # priorityB THEN priorityA < priorityB
        ELSE IF /\ entryA.header.Typeflag = "Dir"
                /\ entryB.header.Typeflag = "Dir"
                /\ CountSlash(pathA) # CountSlash(pathB)
             THEN CountSlash(pathA) < CountSlash(pathB)
             ELSE StrLess(pathA, pathB)

\* the orders in which ranging over the map can yield its entries; an entry
\* is a pointer, named here by its key
MapOrders(fs) ==
    {s \in [1..Cardinality(DOMAIN fs) -> DOMAIN fs] :
        \A i, j \in DOMAIN s : i # j => s[i] # s[j]}

\* sortTarEntries that loses the last entry of the sorted slice
sortTarEntries_DropLast(fs) ==
    {SubSeq(s, 1, Len(s) - 1) : s \in
        {s \in MapOrders(fs) :
            \A i, j \in DOMAIN s : i < j => ~entryLess(fs[s[j]], fs[s[i]])}}

\* sortTarEntries: what sort.Slice can leave, whatever order it started from
sortTarEntries(fs) ==
    {s \in MapOrders(fs) :
        \A i, j \in DOMAIN s : i < j => ~entryLess(fs[s[j]], fs[s[i]])}

\* NormalizedHeader that sets the modification time alone
NormalizedHeader_ModTimeOnly(h) == [h EXCEPT !.ModTime = "epoch"]

\* the header with the timestamps writeFilesystemTar gives it
NormalizedHeader(h) ==
    [h EXCEPT !.ModTime = "epoch", !.AccessTime = "zero", !.ChangeTime = "zero"]

\* the entry the loop of writeFilesystemTar is at
CurrentKey == sortedEntries[Len(written) + 1]

\* the map after the loop updated the header of the entry at key k in place
TouchHeader(fs, k) ==
    [fs EXCEPT ![k] = fileEntry(NormalizedHeader(fs[k].header), fs[k].data)]

\* DataToWrite that hands the writer no content at all
DataToWrite_None(e) == <<>>

\* the bytes tarWriter.Write gets for an entry
DataToWrite(e) ==
    IF e.header.Typeflag = "Reg" /\ Len(e.data) > 0 THEN e.data ELSE <<>>

\* writeFilesystemTar starts: the entries are sorted
SortEntries ==
    /\ pc = "Sorting"
    /\ sortedEntries' \in sortTarEntries(filesystem)
    /\ pc' = "Writing"
    /\ UNCHANGED <<clibVars, outFile, credSent, closedStreams, calls, trailer, layerIdx, reading, openStreams, nread, filesystem, hist, written, err>>

\* one iteration of the loop: the header and the data of an entry are written
WriteEntry ==
    /\ pc = "Writing"
    /\ Len(written) < Len(sortedEntries)
    /\ filesystem' = TouchHeader(filesystem, CurrentKey)
    /\ written' = Append(written,
                         [header |-> filesystem'[CurrentKey].header,
                          data |-> DataToWrite(filesystem'[CurrentKey]),
                          complete |-> TRUE])
    /\ UNCHANGED <<clibVars, outFile, credSent, closedStreams, calls, trailer, pc, layerIdx, reading, openStreams, nread, hist, sortedEntries, err>>

\* WriteHeaderFail whose error leaves out the name of the entry
WriteHeaderFail_Unnamed ==
    /\ pc = "Writing"
    /\ Len(written) < Len(sortedEntries)
    /\ filesystem' = TouchHeader(filesystem, CurrentKey)
    /\ pc' = "Error"
    /\ err' = [msg |-> "failed to write header", layer |-> {}, path |-> {}]
    /\ UNCHANGED <<clibVars, outFile, credSent, closedStreams, calls, trailer, layerIdx, reading, openStreams, nread, hist, sortedEntries, written>>

\* one iteration of the loop: tarWriter.WriteHeader fails
WriteHeaderFail ==
    /\ pc = "Writing"
    /\ Len(written) < Len(sortedEntries)
    /\ filesystem' = TouchHeader(filesystem, CurrentKey)
    /\ pc' = "Error"
    /\ err' = [msg |-> "failed to write header", layer |-> {},
                path |-> {filesystem[CurrentKey].header.Name}]
    /\ UNCHANGED <<clibVars, outFile, credSent, closedStreams, calls, trailer, layerIdx, reading, openStreams, nread, hist, sortedEntries, written>>

\* one iteration of the loop: the header is written, tarWriter.Write fails
WriteDataFail ==
    /\ pc = "Writing"
    /\ Len(written) < Len(sortedEntries)
    /\ DataToWrite(filesystem[CurrentKey]) # <<>>
    /\ filesystem' = TouchHeader(filesystem, CurrentKey)
    /\ written' = Append(written,
                         [header |-> filesystem'[CurrentKey].header,
                          data |-> <<>>,
                          complete |-> FALSE])
    /\ pc' = "Error"
    /\ err' = [msg |-> "failed to write data", layer |-> {},
                path |-> {filesystem[CurrentKey].header.Name}]
    /\ UNCHANGED <<clibVars, outFile, credSent, closedStreams, calls, trailer, layerIdx, reading, openStreams, nread, hist, sortedEntries>>

\* the loop ends: writeFilesystemTar returns nil; the deferred tarWriter.Close
\* flushes the padding of the last entry and the end-of-archive blocks, and
\* the sink takes them
WriteDone ==
    /\ pc = "Writing"
    /\ Len(written) = Len(sortedEntries)
    /\ pc' = "Done"
    /\ trailer' = "written"
    /\ UNCHANGED <<clibVars, outFile, credSent, closedStreams, calls, layerIdx, reading, openStreams, nread, filesystem, hist,
                   sortedEntries, written, err>>

\* the loop ends: writeFilesystemTar returns nil; the deferred tarWriter.Close
\* fails on the sink, and its result is dropped (defer tarWriter.Close())
CloseFail ==
    /\ pc = "Writing"
    /\ Len(written) = Len(sortedEntries)
    /\ pc' = "Done"
    /\ trailer' = "rejected"
    /\ UNCHANGED <<clibVars, outFile, credSent, closedStreams, calls, layerIdx, reading, openStreams, nread, filesystem, hist,
                   sortedEntries, written, err>>

---------------------------------------------------------------------------
(* Inputs of the serializer specification *)

t_aS == <<"a", "/">>
t_SaS == <<"/", "a", "/">>
t_bS == <<"b", "/">>
t_a_b == <<"a", "/", "b">>
t_a_bS == <<"a", "/", "b", "/">>
t_a_a == <<"a", "/", "a">>
t_a_c == <<"a", "/", "c">>
t_a_p == <<"a", "/", "p">>
t_a_wh_b == t_aS \o WhPrefix \o <<"b">>

TarInputs ==
    { Item(t_aS, "Dir", <<>>, <<>>),
      Item(t_SaS, "Dir", <<>>, <<>>),
      Item(t_bS, "Dir", <<>>, <<>>),
      Item(t_a_b, "Dir", <<>>, <<>>),
      Item(t_a_bS, "Dir", <<>>, <<>>),
      Item(t_a_b, "Reg", <<>>, <<1>>),
      [hdr |-> WithTimes(Hdr(t_a_b, "Reg", <<>>, 0), "epoch", "zero", "zero"),
       data |-> <<>>],
      Item(t_a_p, "Fifo", <<>>, <<>>),
      Item(t_a_c, "Symlink", t_a_b, <<>>),
      Item(t_a_a, "Link", t_a_b, <<>>),
      Item(t_a_a, "Link", t_a_c, <<>>),
      Item(t_a_wh_b, "Reg", <<>>, <<>>) }

\* the state at the call of ExportImageFilesystemToWriter
InitExport ==
    /\ pc = "Idle"
    /\ layerIdx = 0
    /\ reading = FALSE
    /\ openStreams = {}
    /\ closedStreams = <<>>
    /\ nread = 0
    /\ filesystem = EmptyMap
    /\ hist = <<>>
    /\ sortedEntries = <<>>
    /\ written = <<>>
    /\ trailer = "none"
    /\ err = NoError
    /\ calls = [c \in Exports |-> NewCall]
    /\ credSent = {}
    /\ outFile = [state |-> "none", exists |-> FALSE, kept |-> FALSE, closes |-> 0,
                  closeFailed |-> FALSE, returned |-> NoError]
    /\ ccalls = <<>>
    /\ lastError = ""
    /\ clog = <<>>
    /\ threads = [t \in 1..MaxThreads |->
                     [pc |-> "idle", failure |-> [isNil |-> TRUE, text |-> ""],
                      got |-> [kind |-> "void", str |-> ""]]]

\* name.ParseReference, remote.Image and image.Layers succeed: applyLayers
\* is called
FetchImage ==
    /\ pc = "Idle"
    /\ pc' = "Applying"
    /\ UNCHANGED <<clibVars, outFile, credSent, closedStreams, calls, trailer, layerIdx, reading, openStreams, nread, filesystem, hist,
                   sortedEntries, written, err>>

\* name.ParseReference fails
ParseFail ==
    /\ pc = "Idle"
    /\ pc' = "Error"
    /\ err' = [msg |-> "failed to parse image reference", layer |-> {}, path |-> {}]
    /\ UNCHANGED <<clibVars, outFile, credSent, closedStreams, calls, trailer, layerIdx, reading, openStreams, nread, filesystem, hist,
                   sortedEntries, written>>

\* FetchFail that goes on to applyLayers without an image
FetchFail_GoesOn ==
    /\ pc = "Idle"
    /\ pc' = "Applying"
    /\ err' = [msg |-> "failed to fetch image", layer |-> {}, path |-> {}]
    /\ UNCHANGED <<clibVars, outFile, credSent, closedStreams, calls, trailer, layerIdx, reading, openStreams, nread, filesystem, hist,
                   sortedEntries, written>>

\* remote.Image fails
FetchFail ==
    /\ pc = "Idle"
    /\ pc' = "Error"
    /\ err' = [msg |-> "failed to fetch image", layer |-> {}, path |-> {}]
    /\ UNCHANGED <<clibVars, outFile, credSent, closedStreams, calls, trailer, layerIdx, reading, openStreams, nread, filesystem, hist,
                   sortedEntries, written>>

\* image.Layers fails
LayersFail ==
    /\ pc = "Idle"
    /\ pc' = "Error"
    /\ err' = [msg |-> "failed to get image layers", layer |-> {}, path |-> {}]
    /\ UNCHANGED <<clibVars, outFile, credSent, closedStreams, calls, trailer, layerIdx, reading, openStreams, nread, filesystem, hist,
                   sortedEntries, written>>

\* the whole export: the image is fetched, applyLayers with its error
\* returns, then writeFilesystemTar
NextTar ==
    \/ FetchImage
    \/ ParseFail
    \/ FetchFail
    \/ LayersFail
    \/ OpenLayer /\ UNCHANGED hist
    \/ OpenLayerFail /\ UNCHANGED hist
    \/ \E in \in TarInputs : InsertEntry(in, MaxTarOps) /\ UNCHANGED hist
    \/ \E in \in TarInputs : Whiteout(in, MaxTarOps) /\ UNCHANGED hist
    \/ EndOfLayer /\ UNCHANGED hist
    \/ ReadFail /\ UNCHANGED hist
    \/ ReadDataFail /\ UNCHANGED hist
    \/ ApplyDone /\ UNCHANGED hist
    \/ SortEntries
    \/ WriteEntry
    \/ WriteHeaderFail
    \/ WriteDataFail
    \/ WriteDone
    \/ CloseFail

SpecTar == InitExport /\ [][NextTar]_vars

---------------------------------------------------------------------------
(* Properties of the overlay engine, specification Spec *)

\* the path components of p: the names between separators
Components(p) == SelectSeq(SplitSlash(p), LAMBDA c : c # <<>> /\ c # Dot)

IsPrefixSeq(a, b) == Len(a) <= Len(b) /\ SubSeq(b, 1, Len(a)) = a

\* key k is the path t (a directory's key may end in a separator) or lies
\* inside it
AtOrInside(k, t) ==
    k = t \/ k = t \o Slash \/ HasPrefix(k, t \o Slash)

\* key k is the path of the directory d itself
AtPath(k, d) == k = d \/ k = d \o Slash

\* key k lies strictly inside the directory d
StrictlyInside(k, d) ==
    IF d = Dot THEN ~AtPath(k, d)
    ELSE HasPrefix(k, d \o Slash) /\ ~AtPath(k, d)

HistIdx == 1..Len(hist)
HistName(i) == hist[i].hdr.Name
HistKey(i) == cleanPath(HistName(i))
HistEntry(i) == [header |-> hist[i].hdr, data |-> hist[i].data]
HistMarker(i) == isWhiteoutFile(HistName(i))
HistOpaque(i) == PathBase(HistName(i)) = OpaqueName
HistRegularMarker(i) == HistMarker(i) /\ ~HistOpaque(i)

\* the directory D of the marker D/.wh.N, a normalized path
MarkerDir(name) ==
    LET k == cleanPath(name)
    IN  IF LastSlash(k) = 0 THEN Dot ELSE SubSeq(k, 1, LastSlash(k) - 1)

\* the target D/N of the regular marker D/.wh.N: the marker's directory and
\* the name that follows the prefix
MarkerTarget(name) ==
    LET k == cleanPath(name)
    IN  SubSeq(k, 1, LastSlash(k))
            \o TrimPrefix(SubSeq(k, LastSlash(k) + 1, Len(k)), WhPrefix)

\* the state right after the item hist[Len(hist)] was processed
JustProcessed == pc = "Applying" /\ hist # <<>>

\* C1: with no deletion marker in any layer, the snapshot holds exactly the
\* normalized paths read so far, each with the entry of its last occurrence.
C1_UnionWithOverride ==
    (pc \in {"Applying", "Sorting"} /\ \A i \in HistIdx : ~HistMarker(i)) =>
        /\ DOMAIN filesystem = {HistKey(i) : i \in HistIdx}
        /\ \A k \in DOMAIN filesystem :
              filesystem[k] = HistEntry(MaxOf({i \in HistIdx : HistKey(i) = k}))

\* C1 witness: three marker-free items in two layers, the later layer
\* replaced the file d/x of the earlier one.
C1_Witness ==
    /\ pc = "Sorting"
    /\ Len(hist) = 3
    /\ \A i \in HistIdx : ~HistMarker(i)
    /\ HistName(1) = n_d_x /\ hist[1].layer = 0
    /\ HistName(3) = n_Sd_x /\ hist[3].layer = 1
    /\ filesystem[n_d_x].data = <<2>>
    /\ Cardinality(DOMAIN filesystem) = 2

\* C2 (as claimed): right after a regular whiteout D/.wh.N the snapshot has
\* no entry at D/N and none inside it that an earlier layer inserted.
C2_RegularWhiteout ==
    (JustProcessed /\ HistRegularMarker(Len(hist))) =>
        \A i \in HistIdx :
            ( /\ hist[i].layer < hist[Len(hist)].layer
              /\ ~HistMarker(i)
              /\ AtOrInside(HistKey(i), MarkerTarget(HistName(Len(hist)))) )
            => HistKey(i) \notin DOMAIN filesystem

\* the step that processes an opaque whiteout
OpaqueStep ==
    /\ Len(hist') = Len(hist) + 1
    /\ PathBase(hist'[Len(hist')].hdr.Name) = OpaqueName

\* C3 (as claimed): an opaque whiteout for D leaves nothing strictly inside D
\* and keeps the entry of D itself when there was one.
C3_OpaqueScope ==
    [][OpaqueStep =>
          LET d == MarkerDir(hist'[Len(hist')].hdr.Name)
          IN  /\ \A k \in DOMAIN filesystem' : ~StrictlyInside(k, d)
              /\ \A k \in DOMAIN filesystem :
                    AtPath(k, d) => k \in DOMAIN filesystem']_vars

\* C4 (as claimed): a marker of layer L removes nothing that layer L inserted
\* before it.
C4_SameLayerKept ==
    (JustProcessed /\ HistMarker(Len(hist))) =>
        \A i \in HistIdx :
            ( /\ hist[i].layer = hist[Len(hist)].layer
              /\ ~HistMarker(i)
              /\ \A j \in HistIdx : (j > i /\ ~HistMarker(j)) => HistKey(j) # HistKey(i) )
            => /\ HistKey(i) \in DOMAIN filesystem
               /\ filesystem[HistKey(i)] = HistEntry(i)

\* C5: an ordinary entry read right after a marker of its own layer is in
\* the snapshot as long as no later item removes or replaces it; layers
\* [file d/x], [opaque whiteout at d, file d/y] give d/y alone.
C5_InsertAfterMarker ==
    (pc \in {"Applying", "Sorting"}) =>
        /\ \A i \in HistIdx :
              ( /\ i > 1
                /\ ~HistMarker(i)
                /\ HistMarker(i - 1)
                /\ hist[i - 1].layer = hist[i].layer
                /\ \A j \in HistIdx :
                      j > i => (~HistMarker(j) /\ HistKey(j) # HistKey(i)) )
              => /\ HistKey(i) \in DOMAIN filesystem
                 /\ filesystem[HistKey(i)] = HistEntry(i)
        /\ ( /\ Len(hist) = 3
             /\ HistName(1) = n_d_x /\ hist[1].layer = 0
             /\ HistName(2) = n_d_opq /\ hist[2].layer = 1
             /\ HistName(3) = n_d_y /\ hist[3].layer = 1 )
           => /\ DOMAIN filesystem = {n_d_y}
              /\ filesystem[n_d_y].data = <<2>>

\* C5 witness: layer 0 wrote d/x, layer 1 cleared d and wrote d/x again.
C5_Witness ==
    /\ pc = "Sorting"
    /\ Len(hist) = 3
    /\ HistName(1) = n_d_x /\ hist[1].layer = 0
    /\ HistName(2) = n_d_opq /\ hist[2].layer = 1
    /\ HistName(3) = n_Sd_x /\ hist[3].layer = 1
    /\ DOMAIN filesystem = {n_d_x}
    /\ filesystem[n_d_x].data = <<2>>

---------------------------------------------------------------------------
(* Properties of the serializer, specification SpecTar *)

WrittenIdx == 1..Len(written)
WrittenName(i) == written[i].header.Name
WrittenType(i) == written[i].header.Typeflag
WrittenIsLink(i) == WrittenType(i) \in {"Symlink", "Link"}

\* the export call returned nil
Succeeded == pc = "Done" /\ err = NoError

\* the path of entry i has the path of entry p as a proper path prefix
ProperPathPrefix(p, i) ==
    /\ IsPrefixSeq(Components(WrittenName(p)), Components(WrittenName(i)))
    /\ Len(Components(WrittenName(p))) < Len(Components(WrittenName(i)))

\* C6 (as claimed): every directory is written before every entry whose path
\* it is a proper path prefix of.
C6_ParentsFirst ==
    Succeeded =>
        \A p, i \in WrittenIdx :
            (WrittenType(p) = "Dir" /\ ProperPathPrefix(p, i)) => p < i

\* the place of a kind in the claimed order: directory, file or other, link
KindRank(t) ==
    IF t = "Dir" THEN 0 ELSE IF t \in {"Symlink", "Link"} THEN 2 ELSE 1

\* entry i comes strictly before entry j in the claimed total order
OrderedBefore(i, j) ==
    \/ KindRank(WrittenType(i)) < KindRank(WrittenType(j))
    \/ /\ KindRank(WrittenType(i)) = KindRank(WrittenType(j))
       /\ WrittenType(i) = "Dir"
       /\ \/ CountSlash(WrittenName(i)) < CountSlash(WrittenName(j))
          \/ /\ CountSlash(WrittenName(i)) = CountSlash(WrittenName(j))
             /\ StrLess(WrittenName(i), WrittenName(j))
    \/ /\ KindRank(WrittenType(i)) = KindRank(WrittenType(j))
       /\ WrittenType(i) # "Dir"
       /\ StrLess(WrittenName(i), WrittenName(j))

\* C7: the entries are written in the order kind priority, then (directories)
\* separator count, then full path; so directories precede regular files and
\* regular files precede links, and a/, a/b, a/c -> a/b come out in this order.
C7_WriteOrder ==
    /\ \A i, j \in WrittenIdx : i < j => OrderedBefore(i, j)
    /\ \A i, j \in WrittenIdx :
          (WrittenType(i) = "Dir" /\ WrittenType(j) = "Reg") => i < j
    /\ \A i, j \in WrittenIdx :
          (WrittenType(i) = "Reg" /\ WrittenIsLink(j)) => i < j
    /\ (Succeeded /\ DOMAIN filesystem = {t_aS, t_a_b, t_a_c}
          /\ filesystem[t_aS].header.Name = t_aS
          /\ filesystem[t_a_b].header.Typeflag = "Reg")
       => <<WrittenName(1), WrittenName(2), WrittenName(3)>> = <<t_aS, t_a_b, t_a_c>>

\* C7 witness: the scenario a/, a/b, a/c was written, a/b with its content.
C7_Witness ==
    /\ Succeeded
    /\ Len(written) = 3
    /\ <<WrittenName(1), WrittenName(2), WrittenName(3)>> = <<t_aS, t_a_b, t_a_c>>
    /\ <<WrittenType(1), WrittenType(2), WrittenType(3)>> = <<"Dir", "Reg", "Symlink">>
    /\ written[2].data = <<1>>

\* entry i is the target of the link entry j
IsTargetOf(i, j) ==
    /\ WrittenIsLink(j)
    /\ cleanPath(WrittenName(i)) = cleanPath(written[j].header.Linkname)

C9_Deterministic ==
    /\ pc = "Sorting" =>
          /\ \A k1, k2 \in DOMAIN filesystem :
                k1 # k2 => (entryLess(filesystem[k1], filesystem[k2])
                               # entryLess(filesystem[k2], filesystem[k1]))
          /\ \A s1, s2 \in sortTarEntries(filesystem) : s1 = s2
          /\ sortTarEntries(filesystem) # {}
    /\ pc \in {"Writing", "Done"} =>
          \A s \in sortTarEntries(filesystem) :
              \A i \in WrittenIdx :
                  /\ cleanPath(WrittenName(i)) = s[i]
                  /\ written[i].header = NormalizedHeader(filesystem[s[i]].header)

\* C9 witness: a snapshot with two directories of equal depth and two links,
\* which more than one map order can yield.
C9_Witness ==
    /\ pc = "Sorting"
    /\ Cardinality(MapOrders(filesystem)) > 1
    /\ \E k1, k2 \in DOMAIN filesystem :
          /\ k1 # k2
          /\ filesystem[k1].header.Typeflag = "Dir"
          /\ filesystem[k2].header.Typeflag = "Dir"
          /\ CountSlash(filesystem[k1].header.Name)
                = CountSlash(filesystem[k2].header.Name)
    /\ \E k1, k2 \in DOMAIN filesystem :
          /\ k1 # k2
          /\ filesystem[k1].header.Typeflag = "Link"
          /\ filesystem[k2].header.Typeflag = "Symlink"

\* C10: on success there is exactly one written entry for each path of the
\* snapshot and no other.
C10_OneEntryPerPath ==
    Succeeded =>
        /\ Len(written) = Cardinality(DOMAIN filesystem)
        /\ {cleanPath(WrittenName(i)) : i \in WrittenIdx} = DOMAIN filesystem
        /\ \A i, j \in WrittenIdx :
              i # j => cleanPath(WrittenName(i)) # cleanPath(WrittenName(j))
        /\ \A i \in WrittenIdx : written[i].complete

\* C10 witness: a snapshot of three paths was written out.
C10_Witness ==
    /\ Succeeded
    /\ Cardinality(DOMAIN filesystem) = 3
    /\ Len(written) = 3

---------------------------------------------------------------------------
(* The flattened filesystem, specification Spec *)

\* item j of the history puts a non-directory at a path that item i, of an
\* earlier layer, lies strictly inside; nothing read after j has i's path
ReplacedByNonDirectory(i, j) ==
    /\ hist[i].layer < hist[j].layer
    /\ ~HistMarker(i)
    /\ ~HistMarker(j)
    /\ hist[j].hdr.Typeflag # "Dir"
    /\ StrictlyInside(HistKey(i), HistKey(j))
    /\ \A k \in HistIdx : k > j => HistKey(k) # HistKey(i)

\* C11 (as claimed): the snapshot is what extracting the layers in order onto
\* a directory tree leaves; so when a later layer puts a non-directory at the
\* path of a directory, no entry of an earlier layer inside that directory
\* remains.
C11_ExtractEquivalent ==
    (pc = "Sorting") =>
        \A i, j \in HistIdx :
            ReplacedByNonDirectory(i, j) => HistKey(i) \notin DOMAIN filesystem

---------------------------------------------------------------------------
(* Path normalization, specification SpecPath *)

n_etc_hosts == <<"e", "t", "c", "/", "h", "o", "s", "t", "s">>
n_Setc_hosts == Slash \o n_etc_hosts

\* the names of the path specification: every string of separators, dots and
\* a letter up to the bound, and the two long names
PathNames ==
    UNION {[1..n -> {"/", ".", "a"}] : n \in 0..MaxNameLen}
        \cup {n_etc_hosts, n_Setc_hosts}

PathInputs == {Item(name, "Reg", <<>>, <<>>) : name \in PathNames}

\* applyLayers reading ordinary entries of any name
NextPath ==
    \/ OpenLayer /\ UNCHANGED hist
    \/ \E in \in PathInputs : InsertEntry(in, MaxPathOps) /\ Record(in)

SpecPath == Init /\ [][NextPath]_vars

\* the key the claim gives a name: the name without its leading separator,
\* the root key for the empty name and the lone separator
ClaimedKey(name) ==
    IF name = <<>> \/ name = Slash THEN Dot
    ELSE IF name[1] = "/" THEN Tail(name)
    ELSE name

\* C12: the entry just read is in the snapshot under its name without the
\* leading separator, under "." when the name is empty or the separator
\* alone; /etc/hosts is under etc/hosts and a name with no leading separator
\* under itself.
C12_PathNormalization ==
    JustProcessed =>
        LET name == HistName(Len(hist))
        IN  /\ ClaimedKey(name) \in DOMAIN filesystem
            /\ filesystem[ClaimedKey(name)] = HistEntry(Len(hist))
            /\ \A k \in DOMAIN filesystem : k # <<>>
            /\ name = n_Setc_hosts => n_etc_hosts \in DOMAIN filesystem
            /\ name \in {<<>>, Slash} => Dot \in DOMAIN filesystem
            /\ (name # <<>> /\ name[1] # "/") => name \in DOMAIN filesystem

\* C12 witness: the empty name or the lone separator was read and the
\* snapshot has the root key for it.
C12_Witness ==
    /\ JustProcessed
    /\ HistName(Len(hist)) \in {<<>>, Slash}
    /\ DOMAIN filesystem = {Dot}

---------------------------------------------------------------------------
(* Metadata and failures of the export, specification SpecTar *)

\* the timestamps of header h are the normalized ones
TimesNormalized(h) ==
    /\ h.ModTime = "epoch"
    /\ h.AccessTime = "zero"
    /\ h.ChangeTime = "zero"

\* C13: every header handed to the archive writer, accepted or rejected, has
\* the epoch as modification time and no access or change time, whatever
\* times it had in its layer.
C13_TimesNormalized ==
    /\ \A i \in WrittenIdx : TimesNormalized(written[i].header)
    /\ (pc = "Error" /\ err.msg = "failed to write header") =>
          TimesNormalized(filesystem[CurrentKey].header)

\* C13 witness: the directory a/, read with the times of its layer, and the
\* file a/b were written.
C13_Witness ==
    /\ Succeeded
    /\ \E i \in WrittenIdx : WrittenName(i) = t_aS /\ WrittenType(i) = "Dir"
    /\ \E i \in WrittenIdx : WrittenName(i) = t_a_b /\ written[i].data = <<1>>

\* applyLayers returned an error: a stream that did not open, a header that
\* could not be read, a file content shorter than its size
LayerFailure ==
    /\ pc = "Error"
    /\ err.msg \in {"failed to get layer content", "failed to read layer tar",
                    "failed to read file data"}

\* C14: when opening or reading a layer fails, the call has an error and no
\* snapshot, nothing was sorted or written, and no step follows: no further
\* entry and no further layer is read.
C14_LayerFailureAborts ==
    /\ [](LayerFailure =>
            /\ err # NoError
            /\ filesystem = EmptyMap
            /\ sortedEntries = <<>>
            /\ written = <<>>
            /\ ~reading /\ openStreams = {})
    /\ [][~LayerFailure]_vars

\* C14 witness: layer 1 failed after entries of layer 0 were applied.
C14_Witness ==
    /\ LayerFailure
    /\ layerIdx = 1
    /\ nread >= 2

\* C15 (as claimed): every error of the overlay engine tells where it
\* happened: a stream failure has the index of the layer, a regular file cut
\* short has the path of the file or the index of the layer.
C15_ErrorsLocated ==
    LayerFailure => (err.layer # {} \/ err.path # {})

\* writeFilesystemTar returned an error of a header write or a data write
WriteFailure ==
    /\ pc = "Error"
    /\ err.msg \in {"failed to write header", "failed to write data"}

\* the place in the sorted order of the entry whose write failed
FailedAt ==
    IF err.msg = "failed to write header" THEN Len(written) + 1 ELSE Len(written)

\* a step takes nothing back from the sink
WrittenKept ==
    /\ Len(written') >= Len(written)
    /\ SubSeq(written', 1, Len(written)) = written

\* C16: when the sink rejects the header or the data of entry k of the
\* sorted order, the error names that entry, the entries before k are on the
\* sink whole and in order, nothing of an entry after k is, and no step
\* follows; a step of the writer only ever appends to what the sink has.
C16_WriteFailureStops ==
    /\ [](WriteFailure =>
            /\ FailedAt \in 1..Len(sortedEntries)
            /\ err.path = {filesystem[sortedEntries[FailedAt]].header.Name}
            /\ Len(written) <= FailedAt
            /\ \A i \in WrittenIdx :
                  /\ written[i].header = filesystem[sortedEntries[i]].header
                  /\ i < FailedAt =>
                        /\ written[i].complete
                        /\ written[i].data = DataToWrite(filesystem[sortedEntries[i]])
            /\ err.msg = "failed to write data" => ~written[FailedAt].complete)
    /\ [][~WriteFailure]_vars
    /\ [][WrittenKept]_vars

\* C16 witness: the data of the second of three entries was rejected, after
\* one entry was written.
C16_Witness ==
    /\ WriteFailure
    /\ err.msg = "failed to write data"
    /\ Len(sortedEntries) = 3
    /\ Len(written) = 2
    /\ written[1].complete

\* C17 (as claimed): no failure of the sink is swallowed; when the call
\* returns no error the sink has taken every entry and the blocks that the
\* close of the archive writer flushes.
C17_NoFailureSwallowed ==
    Succeeded =>
        /\ trailer = "written"
        /\ \A i \in WrittenIdx : written[i].complete

\* the phases a step may lead to from the phase it starts in
PhaseOrder ==
    /\ pc = "Idle" => pc' \in {"Applying", "Error"}
    /\ pc = "Applying" => pc' \in {"Applying", "Sorting", "Error"}
    /\ pc = "Sorting" => pc' \in {"Writing", "Error"}
    /\ pc = "Writing" => pc' \in {"Writing", "Done", "Error"}
    /\ pc \notin {"Done", "Error"}

\* layers are taken one after the other: layer layerIdx is opened when the
\* layers before it have been opened and read to their end, and the index
\* goes up by one when the open stream ends
LayerOrder ==
    /\ (reading' /\ ~reading) =>
          /\ openStreams = 0..(layerIdx - 1)
          /\ openStreams' = 0..layerIdx
          /\ layerIdx' = layerIdx
    /\ layerIdx' # layerIdx =>
          /\ layerIdx' = layerIdx + 1
          /\ reading /\ ~reading'
          /\ pc = "Applying" /\ pc' = "Applying"
    /\ nread' # nread => (pc = "Applying" /\ pc' = "Applying" /\ reading /\ reading')
    /\ pc' = "Sorting" => ~reading

\* the sink gets nothing before the layers are applied and the entries
\* sorted
WriteAfterApply ==
    (written' # written \/ trailer' # trailer) => pc = "Writing"

ImageFailure ==
    /\ pc = "Error"
    /\ err.msg \in {"failed to parse image reference", "failed to fetch image"}

\* C19: when the reference cannot be parsed or the image cannot be fetched
\* the call returns an error with that prefix, and the writer has received
\* nothing: no layer was opened, nothing sorted, nothing written.
C19_InvalidImage ==
    /\ [](ImageFailure =>
            /\ err # NoError
            /\ written = <<>> /\ trailer = "none"
            /\ sortedEntries = <<>>
            /\ nread = 0 /\ openStreams = {} /\ ~reading)
    /\ [](err.msg \in {"failed to parse image reference", "failed to fetch image"}
            => pc = "Error")
    /\ [][~ImageFailure]_vars

\* C19 witness: the call ended on a reference that did not parse.
C19_Witness ==
    /\ ImageFailure
    /\ err.msg = "failed to parse image reference"
    /\ written = <<>>

---------------------------------------------------------------------------
(* The C library (clib/exports.go), specification SpecClib *)

\* a Go error value: nil, or an error with the text err.Error() gives
NilError == [isNil |-> TRUE, text |-> ""]
GoError(text) == [isNil |-> FALSE, text |-> text]

\* setLastError that leaves the stored message when err is nil
setLastError_KeepOnNil(e) == IF ~e.isNil THEN e.text ELSE lastError

\* setLastError(err): the stored message after the call
setLastError(e) == IF ~e.isNil THEN e.text ELSE ""

\* getLastErrorInternal()
getLastErrorInternal == lastError

\* what a call gave back to C: a NULL or non-NULL char*, or an int
CNull == [kind |-> "NULL", str |-> ""]
CString(str) == [kind |-> "ptr", str |-> str]
CInt(n) == [kind |-> "int", str |-> IF n = 0 THEN "0" ELSE "-1"]
CVoid == [kind |-> "void", str |-> ""]

\* the history gets the call fn, what it returned and the error it met
Called(fn, ret, e) ==
    clog' = Append(clog, [fn |-> fn, ret |-> ret, failure |-> e])

\* the outcomes of json.Unmarshal on the auth_json argument
AuthOutcomes == {NilError, GoError("invalid character in auth json")}

\* the outcomes of lib's GetImageConfig
ConfigOutcomes ==
    {NilError, GoError("failed to parse image reference"),
     GoError("failed to fetch image"), GoError("failed to get config file")}

\* the outcomes of json.Marshal on the configuration
MarshalOutcomes == {NilError, GoError("json: unsupported value")}

\* the outcomes of lib's ExportImageFilesystem and
\* ExportImageFilesystemWithOptions
ExportOutcomes ==
    {NilError, GoError("failed to create output file"),
     GoError("failed to parse image reference"), GoError("failed to fetch image"),
     GoError("failed to get image layers"), GoError("failed to apply layers"),
     GoError("failed to write filesystem tar")}

\* the first error of a call's steps, nil when none fails
FirstError(steps) ==
    IF \E i \in DOMAIN steps : ~steps[i].isNil
    THEN steps[MinOf({i \in DOMAIN steps : ~steps[i].isNil})]
    ELSE NilError

\* char* get_image_config_json(image_ref, auth_json)
get_image_config_json(auth, config, marshal) ==
    LET e == FirstError(<<auth, config, marshal>>)
    IN  /\ Len(clog) < MaxCalls
        /\ lastError' = setLastError(e)
        /\ Called("get_image_config_json",
                  IF e.isNil THEN CString("config json") ELSE CNull, e)
        /\ UNCHANGED <<threads, ccalls, exportVars>>

\* int export_image_filesystem_to_file(image_ref, output_path, auth_json)
export_image_filesystem_to_file(auth, export) ==
    LET e == FirstError(<<auth, export>>)
    IN  /\ Len(clog) < MaxCalls
        /\ lastError' = setLastError(e)
        /\ Called("export_image_filesystem_to_file",
                  IF e.isNil THEN CInt(0) ELSE CInt(-1), e)
        /\ UNCHANGED <<threads, ccalls, exportVars>>

\* int export_image_filesystem_with_options(image_ref, output_path,
\* auth_json, compress, progress_callback)
export_image_filesystem_with_options(auth, export) ==
    LET e == FirstError(<<auth, export>>)
    IN  /\ Len(clog) < MaxCalls
        /\ lastError' = setLastError(e)
        /\ Called("export_image_filesystem_with_options",
                  IF e.isNil THEN CInt(0) ELSE CInt(-1), e)
        /\ UNCHANGED <<threads, ccalls, exportVars>>

\* char* get_version(void)
get_version ==
    /\ Len(clog) < MaxCalls
    /\ Called("get_version", CString("0.1.2"), NilError)
    /\ UNCHANGED <<lastError, threads, ccalls, exportVars>>

\* char* get_description(void)
get_description ==
    /\ Len(clog) < MaxCalls
    /\ Called("get_description",
              CString("Docker image export tool without Docker daemon"), NilError)
    /\ UNCHANGED <<lastError, threads, ccalls, exportVars>>

\* char* get_last_error(void): NULL when the stored message is empty
get_last_error ==
    LET errMsg == getLastErrorInternal
    IN  /\ Len(clog) < MaxCalls
        /\ Called("get_last_error",
                  IF errMsg = "" THEN CNull ELSE CString(errMsg), NilError)
        /\ UNCHANGED <<lastError, threads, ccalls, exportVars>>

\* void free_string(char* str)
free_string ==
    /\ Len(clog) < MaxCalls
    /\ Called("free_string", CVoid, NilError)
    /\ UNCHANGED <<lastError, threads, ccalls, exportVars>>

\* the calls one C caller makes, one after the other
NextClib ==
    \/ \E auth \in AuthOutcomes, config \in ConfigOutcomes, marshal \in MarshalOutcomes :
          get_image_config_json(auth, config, marshal)
    \/ \E auth \in AuthOutcomes, export \in ExportOutcomes :
          export_image_filesystem_to_file(auth, export)
    \/ \E auth \in AuthOutcomes, export \in ExportOutcomes :
          export_image_filesystem_with_options(auth, export)
    \/ get_version
    \/ get_description
    \/ get_last_error
    \/ free_string

SpecClib == InitExport /\ [][NextClib]_vars

ClogIdx == 1..Len(clog)

\* the three calls that report failure by NULL or -1
Reporting(i) ==
    clog[i].fn \in {"get_image_config_json", "export_image_filesystem_to_file",
                    "export_image_filesystem_with_options"}

\* call i returned failure
ReturnedFailure(i) ==
    clog[i].ret = CNull \/ clog[i].ret = CInt(-1)

\* call i reads the library without being one of the reporting calls
Getter(i) == clog[i].fn \in {"get_last_error", "get_version", "get_description"}

\* the step is a call of one of the three getters
GetterStep ==
    /\ Len(clog') = Len(clog) + 1
    /\ clog'[Len(clog')].fn \in {"get_last_error", "get_version", "get_description"}

\* C20: with one caller, get_last_error right after a failed
\* get_image_config_json, export_image_filesystem_to_file or
\* export_image_filesystem_with_options returns the message of that failure,
\* non-NULL; right after a successful one it returns NULL; get_last_error,
\* get_version and get_description leave the stored message, so
\* get_last_error calls with only such calls between them return the same.
C20_LastError ==
    /\ [](\A i \in ClogIdx :
            (Reporting(i) /\ i + 1 \in ClogIdx /\ clog[i + 1].fn = "get_last_error") =>
                IF ReturnedFailure(i)
                THEN /\ ~clog[i].failure.isNil
                     /\ clog[i + 1].ret = CString(clog[i].failure.text)
                ELSE /\ clog[i].failure.isNil
                     /\ clog[i + 1].ret = CNull)
    /\ [](\A i, j \in ClogIdx :
            ( /\ i < j
              /\ clog[i].fn = "get_last_error"
              /\ clog[j].fn = "get_last_error"
              /\ \A k \in (i + 1)..(j - 1) : Getter(k) )
            => clog[i].ret = clog[j].ret)
    /\ [][GetterStep => lastError' = lastError]_vars

\* C20 witness: an export failed, and get_last_error gave its message twice.
C20_Witness ==
    /\ Len(clog) = 3
    /\ clog[1].fn = "export_image_filesystem_to_file"
    /\ clog[1].ret = CInt(-1)
    /\ clog[2].fn = "get_last_error"
    /\ clog[3].fn = "get_last_error"
    /\ clog[3].ret = CString("failed to fetch image")
    /\ lastError = "failed to fetch image"

---------------------------------------------------------------------------
(* Several threads on the C library, specification SpecThreads *)

Threads == 1..MaxThreads

\* a thread that is not in a call
IdleThread == [pc |-> "idle", failure |-> NilError, got |-> CVoid]

\* the outcomes of export_image_filesystem_to_file that the threads meet
ThreadOutcomes ==
    {NilError, GoError("failed to parse image reference"),
     GoError("failed to fetch image")}

\* thread t calls export_image_filesystem_to_file: the export runs, the
\* message is stored under the lock, the call returns 0 or -1
ThreadExport(t, e) ==
    /\ threads[t].pc = "idle"
    /\ lastError' = setLastError(e)
    /\ threads' = [threads EXCEPT ![t] = [pc |-> "returned", failure |-> e, got |-> CVoid]]
    /\ UNCHANGED <<clog, ccalls, exportVars>>

\* thread t calls get_last_error after its call returned: the stored message
\* is read under the lock
ThreadGetLastError(t) ==
    /\ threads[t].pc = "returned"
    /\ threads' = [threads EXCEPT ![t].pc = "read",
                                  ![t].got = IF getLastErrorInternal = ""
                                             THEN CNull
                                             ELSE CString(getLastErrorInternal)]
    /\ UNCHANGED <<lastError, clog, ccalls, exportVars>>

\* thread t goes on to its next call
ThreadAgain(t) ==
    /\ threads[t].pc = "read"
    /\ threads' = [threads EXCEPT ![t] = IdleThread]
    /\ UNCHANGED <<lastError, clog, ccalls, exportVars>>

NextThreads ==
    \/ \E t \in Threads, e \in ThreadOutcomes : ThreadExport(t, e)
    \/ \E t \in Threads : ThreadGetLastError(t)
    \/ \E t \in Threads : ThreadAgain(t)

SpecThreads == InitExport /\ [][NextThreads]_vars

\* C21 (as claimed): a thread that calls get_last_error right after its own
\* call returned failure gets the message of that call, not NULL and not the
\* message of another thread's call.
C21_OwnError ==
    \A t \in Threads :
        (threads[t].pc = "read" /\ ~threads[t].failure.isNil) =>
            threads[t].got = CString(threads[t].failure.text)

---------------------------------------------------------------------------
(* Export calls that run at once, specification SpecCalls *)

\* the streams the calls read from
CallInputs ==
    { Item(n_d_x, "Reg", <<>>, <<1>>),
      Item(n_d_y, "Reg", <<>>, <<2>>),
      Item(n_d_opq, "Reg", <<>>, <<>>) }

\* the map after one iteration of applyLayers' loop on the item in
ApplyItem(fs, in) ==
    IF isWhiteoutFile(in.hdr.Name)
    THEN handleWhiteout(fs, in.hdr.Name)
    ELSE InsertInto(fs, in.hdr, in.data)

\* what writeFilesystemTar puts on the sink for the map fs
Archive(fs) ==
    {[i \in DOMAIN s |-> [header |-> NormalizedHeader(fs[s[i]].header),
                          data |-> DataToWrite(fs[s[i]])]] :
        s \in sortTarEntries(fs)}

\* call c opens its next layer
CallOpenLayer(c) ==
    /\ calls[c].pc = "Applying"
    /\ ~calls[c].reading
    /\ calls[c].layerIdx < MaxLayers
    /\ calls' = [calls EXCEPT ![c].reading = TRUE]
    /\ UNCHANGED <<clibVars, outFile, credSent, closedStreams, pc, layerIdx, reading, openStreams, nread, filesystem,
                   hist, sortedEntries, written, trailer, err>>

\* CallEntry on a map that the calls have in common
CallEntry_SharedMap(c, in) ==
    /\ calls[c].pc = "Applying"
    /\ calls[c].reading
    /\ Len(calls[c].hist) < MaxCallOps
    /\ calls' = [x \in Exports |->
                    IF x = c
                    THEN [calls[x] EXCEPT
                            !.filesystem = ApplyItem(calls[x].filesystem, in),
                            !.hist = Append(calls[x].hist, in)]
                    ELSE [calls[x] EXCEPT
                            !.filesystem = ApplyItem(calls[x].filesystem, in)]]
    /\ UNCHANGED <<clibVars, outFile, credSent, closedStreams, pc, layerIdx, reading, openStreams, nread, filesystem,
                   hist, sortedEntries, written, trailer, err>>

\* call c reads one entry of its open layer and applies it to its own map
CallEntry(c, in) ==
    /\ calls[c].pc = "Applying"
    /\ calls[c].reading
    /\ Len(calls[c].hist) < MaxCallOps
    /\ calls' = [calls EXCEPT
                    ![c].filesystem = ApplyItem(calls[c].filesystem, in),
                    ![c].hist = Append(calls[c].hist, in)]
    /\ UNCHANGED <<clibVars, outFile, credSent, closedStreams, pc, layerIdx, reading, openStreams, nread, filesystem,
                   hist, sortedEntries, written, trailer, err>>

\* the open layer of call c ends
CallEndOfLayer(c) ==
    /\ calls[c].pc = "Applying"
    /\ calls[c].reading
    /\ calls' = [calls EXCEPT ![c].reading = FALSE,
                              ![c].layerIdx = calls[c].layerIdx + 1]
    /\ UNCHANGED <<clibVars, outFile, credSent, closedStreams, pc, layerIdx, reading, openStreams, nread, filesystem,
                   hist, sortedEntries, written, trailer, err>>

\* applyLayers of call c returns its map; writeFilesystemTar sorts it and
\* writes it to the call's writer
CallWrite(c) ==
    /\ calls[c].pc = "Applying"
    /\ ~calls[c].reading
    /\ \E a \in Archive(calls[c].filesystem) :
          calls' = [calls EXCEPT ![c].pc = "Done", ![c].out = a]
    /\ UNCHANGED <<clibVars, outFile, credSent, closedStreams, pc, layerIdx, reading, openStreams, nread, filesystem,
                   hist, sortedEntries, written, trailer, err>>

NextCalls ==
    \/ \E c \in Exports : CallOpenLayer(c)
    \/ \E c \in Exports, in \in CallInputs : CallEntry(c, in)
    \/ \E c \in Exports : CallEndOfLayer(c)
    \/ \E c \in Exports : CallWrite(c)

SpecCalls == InitExport /\ [][NextCalls]_vars

\* the map a call that runs alone builds from the items h
RECURSIVE RunAlone(_)
RunAlone(h) ==
    IF h = <<>> THEN EmptyMap
    ELSE ApplyItem(RunAlone(SubSeq(h, 1, Len(h) - 1)), h[Len(h)])

\* C22: calls that run at once have no state in common: in every
\* interleaving the map of each call is the one the call builds alone from
\* its own streams, and its output is the archive of that map.
C22_CallsIndependent ==
    \A c \in Exports :
        /\ calls[c].filesystem = RunAlone(calls[c].hist)
        /\ calls[c].pc = "Done" => calls[c].out \in Archive(RunAlone(calls[c].hist))

\* C22 witness: both calls are done, one read d/x and d/y, the other d/x and
\* then cleared d.
C22_Witness ==
    /\ \A c \in Exports : calls[c].pc = "Done"
    /\ DOMAIN calls["A"].filesystem = {n_d_x, n_d_y}
    /\ Len(calls["A"].out) = 2
    /\ Len(calls["B"].hist) = 2
    /\ calls["B"].filesystem = EmptyMap

---------------------------------------------------------------------------
(* Registry credentials, specification SpecAuth *)

DockerHub == "index.docker.io"

\* the registries of the model
Registries == {DockerHub, "ghcr.io", "registry.example"}

\* the results of name.ParseReference: an error, or a reference with the
\* registry it names
References == {[ok |-> FALSE, registry |-> ""]}
                 \cup {[ok |-> TRUE, registry |-> r] : r \in Registries}

\* the auth argument: nil, or an AuthConfig
AuthConfigs ==
    {[isNil |-> TRUE, Username |-> "", Password |-> "", Registry |-> ""]}
        \cup {[isNil |-> FALSE, Username |-> "user", Password |-> "secret", Registry |-> r] :
                 r \in {"", "ghcr.io", "registry.example"}}

\* what remote.Image presents to the registry of ref with the option built
\* from auth: authn.Basic{Username, Password} goes to the registry the
\* reference names; with a nil auth the keychain is asked
PresentedBy(ref, auth) ==
    IF ref.ok /\ ~auth.isNil
    THEN {[to |-> ref.registry, auth |-> auth]}
    ELSE {}

\* GetImageConfig(imageRef, auth) up to remote.Image
GetImageConfig(ref, auth) ==
    /\ credSent' = credSent \cup PresentedBy(ref, auth)
    /\ UNCHANGED <<clibVars, outFile, closedStreams, pc, layerIdx, reading, openStreams, nread,
                   filesystem, hist, sortedEntries, written, trailer, err, calls>>

\* ExportImageFilesystemToWriter(imageRef, writer, auth) up to remote.Image
ExportFetch(ref, auth) ==
    /\ credSent' = credSent \cup PresentedBy(ref, auth)
    /\ UNCHANGED <<clibVars, outFile, closedStreams, pc, layerIdx, reading, openStreams, nread,
                   filesystem, hist, sortedEntries, written, trailer, err, calls>>

NextAuth ==
    \/ \E ref \in References, auth \in AuthConfigs : GetImageConfig(ref, auth)
    \/ \E ref \in References, auth \in AuthConfigs : ExportFetch(ref, auth)

SpecAuth == InitExport /\ [][NextAuth]_vars

\* the registry an AuthConfig is for: its Registry field, Docker Hub when the
\* field is empty
RegistryOf(auth) == IF auth.Registry = "" THEN DockerHub ELSE auth.Registry

\* C23 (as claimed): the username and password of an AuthConfig are presented
\* only to the registry its Registry field names, Docker Hub when it is
\* empty.
C23_CredentialsScoped ==
    \A sent \in credSent : sent.to = RegistryOf(sent.auth)

---------------------------------------------------------------------------
(* Names of deletion markers, specification SpecMarker *)

n_Sd_opq == Slash \o n_d_opq
n_d_wh_x == n_dS \o WhPrefix \o <<"x">>
n_Sd_wh_x == Slash \o n_d_wh_x
n_d_wh == n_dS \o WhPrefix
n_d_opqz == n_d_opq \o <<"z">>

MarkerInputs ==
    { Item(n_dS, "Dir", <<>>, <<>>),
      Item(n_d_x, "Reg", <<>>, <<1>>),
      Item(n_d_y, "Reg", <<>>, <<2>>),
      Item(n_d_opq, "Reg", <<>>, <<>>),
      Item(n_Sd_opq, "Reg", <<>>, <<>>),
      Item(n_d_wh_x, "Reg", <<>>, <<>>),
      Item(n_Sd_wh_x, "Reg", <<>>, <<>>),
      Item(n_d_wh, "Reg", <<>>, <<>>),
      Item(n_d_opqz, "Reg", <<>>, <<>>) }

\* applyLayers on streams with markers of every spelling
NextMarker ==
    \/ OpenLayer /\ UNCHANGED hist
    \/ \E in \in MarkerInputs : InsertEntry(in, MaxMarkerOps) /\ Record(in)
    \/ \E in \in MarkerInputs : Whiteout(in, MaxMarkerOps) /\ Record(in)
    \/ EndOfLayer /\ UNCHANGED hist
    \/ ApplyDone /\ UNCHANGED hist

SpecMarker == Init /\ [][NextMarker]_vars

\* the step that processes an entry whose name the code takes for a marker
MarkerStep ==
    /\ Len(hist') = Len(hist) + 1
    /\ isWhiteoutFile(hist'[Len(hist')].hdr.Name)

\* C24 (as claimed): a marker removes what the marker of the normalized name
\* removes: the entries gone are the same with and without a leading
\* separator in the marker's name.
C24_MarkerNormalized ==
    [][MarkerStep =>
          filesystem' = handleWhiteout(filesystem, cleanPath(hist'[Len(hist')].hdr.Name))]_vars

\* the final component of name is the bare deletion prefix, or the opaque
\* sentinel with more characters after it
MalformedMarker(name) ==
    \/ PathBase(name) = WhPrefix
    \/ HasPrefix(PathBase(name), OpaqueName) /\ PathBase(name) # OpaqueName

\* the step that processes an entry with such a name
MalformedStep ==
    /\ Len(hist') = Len(hist) + 1
    /\ MalformedMarker(hist'[Len(hist')].hdr.Name)

\* C26 (as claimed): an entry whose name is no valid deletion marker (the
\* bare prefix, the opaque sentinel with more after it) is an ordinary entry:
\* it is inserted, it removes nothing, there is no error.
C26_MalformedIsOrdinary ==
    [][MalformedStep =>
          /\ filesystem' = InsertInto(filesystem, hist'[Len(hist')].hdr,
                                      hist'[Len(hist')].data)
          /\ err' = NoError]_vars

---------------------------------------------------------------------------
(* The snapshot and its streams, specification SpecTar *)

\* C25 (as claimed): the serializer leaves the snapshot as it got it: no
\* step of writeFilesystemTar changes a header field, the content or the set
\* of paths of the map.
C25_SnapshotNotMutated ==
    [][(pc \in {"Sorting", "Writing"}) => filesystem' = filesystem]_vars

---------------------------------------------------------------------------
(* Snapshot keys, specification SpecPath *)

\* C27 (as claimed): every key of the snapshot is a normalized relative path:
\* not empty and not beginning with a separator, for every name a layer can
\* carry, names with more than one leading separator among them.
C27_KeysNormalized ==
    \A k \in DOMAIN filesystem : k # <<>> /\ k[1] # "/"

\* C28: in every snapshot a regular file has as many content bytes as its
\* header declares and an entry of another kind has none; the serializer
\* writes the content of a regular file that has some after its header, and
\* the header alone for an empty file and for every other kind.
C28_ContentBySize ==
    /\ \A k \in DOMAIN filesystem :
          IF filesystem[k].header.Typeflag = "Reg"
          THEN Len(filesystem[k].data) = filesystem[k].header.Size
          ELSE filesystem[k].data = <<>>
    /\ \A i \in WrittenIdx :
          LET e == filesystem[sortedEntries[i]]
          IN  IF e.header.Typeflag = "Reg" /\ Len(e.data) > 0
              THEN written[i].complete => written[i].data = e.data
              ELSE written[i].complete /\ written[i].data = <<>>

\* C28 witness: a file with content, and an entry that is no regular file,
\* were written.
C28_Witness ==
    /\ Succeeded
    /\ \E i \in WrittenIdx : WrittenType(i) = "Reg" /\ written[i].data = <<1>>
    /\ \E i \in WrittenIdx : WrittenType(i) = "Fifo" /\ written[i].data = <<>>
    /\ \E k \in DOMAIN filesystem : filesystem[k].header.Size = 1

\* C29 (as claimed): the stream of a layer is released before the next one
\* is opened, so at most one layer stream is open at a time.
C29_OneStreamOpen ==
    Cardinality(openStreams) <= 1

\* applyLayers has returned
ApplyReturned ==
    \/ pc \in {"Sorting", "Writing", "Done"}
    \/ LayerFailure \/ WriteFailure

\* the layers whose stream applyLayers opened: all up to the one it was at,
\* without that one when it is the one that failed to open or the loop was
\* over
OpenedLayers ==
    IF LayerFailure /\ err.msg # "failed to get layer content"
    THEN 0..layerIdx
    ELSE 0..(layerIdx - 1)

\* C30: when applyLayers has returned, with its map or with any of its
\* errors, no stream is open and every stream it opened was closed exactly
\* once.
C30_StreamsClosedOnce ==
    ApplyReturned =>
        /\ openStreams = {}
        /\ Len(closedStreams) = Cardinality(OpenedLayers)
        /\ \A i \in OpenedLayers :
              Cardinality({j \in DOMAIN closedStreams : closedStreams[j] = i}) = 1

\* C30 witness: the second layer's content was cut short; both streams were
\* closed, the later one first.
C30_Witness ==
    /\ pc = "Error"
    /\ err.msg = "failed to read file data"
    /\ layerIdx = 1
    /\ closedStreams = <<1, 0>>
    /\ openStreams = {}


---------------------------------------------------------------------------
(* What a deletion marker leaves alone, specification SpecFrame *)

n_d_subway == n_d_sub \o <<"w", "a", "y">>
n_dd_x == <<"d", "d", "/", "x">>

FrameInputs ==
    { Item(n_dS, "Dir", <<>>, <<>>),
      Item(n_d_sub, "Reg", <<>>, <<1>>),
      Item(n_d_subS, "Dir", <<>>, <<>>),
      Item(n_d_sub_f, "Reg", <<>>, <<2>>),
      Item(n_d_subway, "Reg", <<>>, <<1>>),
      Item(n_dd_x, "Reg", <<>>, <<2>>),
      Item(n_d_wh_sub, "Reg", <<>>, <<>>),
      Item(n_d_opq, "Reg", <<>>, <<>>),
      Item(n_wh_d, "Reg", <<>>, <<>>),
      Item(n_opq, "Reg", <<>>, <<>>) }

\* applyLayers on streams with well-formed markers and entries beside their
\* targets
NextFrame ==
    \/ OpenLayer /\ UNCHANGED hist
    \/ \E in \in FrameInputs : InsertEntry(in, MaxFrameOps) /\ Record(in)
    \/ \E in \in FrameInputs : Whiteout(in, MaxFrameOps) /\ Record(in)
    \/ EndOfLayer /\ UNCHANGED hist
    \/ ApplyDone /\ UNCHANGED hist

SpecFrame == Init /\ [][NextFrame]_vars

\* what the marker named name is for: the directory D of an opaque marker,
\* the target D/N of a regular one
MarkerScope(name) ==
    IF PathBase(name) = OpaqueName THEN MarkerDir(name) ELSE MarkerTarget(name)

\* key k is the path s or lies inside it; every key lies inside the root
InScope(k, s) == s = Dot \/ AtOrInside(k, s)

\* the marker just read left every entry outside its scope as it was, left
\* the whole snapshot as it was when nothing was in its scope, and the call
\* goes on without an error
FrameKept ==
    LET scope == MarkerScope(hist'[Len(hist')].hdr.Name)
        outside == {k \in DOMAIN filesystem : ~InScope(k, scope)}
    IN  /\ \A k \in outside :
              k \in DOMAIN filesystem' /\ filesystem'[k] = filesystem[k]
        /\ outside = DOMAIN filesystem => filesystem' = filesystem
        /\ pc' = "Applying"
        /\ err' = NoError

\* C31: a marker changes nothing outside its target: a regular whiteout for T
\* keeps every entry that is neither T nor inside T (d/subway when T is
\* d/sub), an opaque whiteout for D keeps every entry outside D (dd/x when D
\* is d), and a marker with nothing at its target keeps the snapshot as it is
\* and is no error.
C31_MarkerFrame == [][MarkerStep => FrameKept]_vars

\* C31 witness: layer 0 wrote d/sub and d/subway, the marker d/.wh.sub of
\* layer 1 removed d/sub and kept d/subway.
C31_Witness ==
    /\ JustProcessed
    /\ Len(hist) = 3
    /\ HistName(1) = n_d_sub /\ hist[1].layer = 0
    /\ HistName(2) = n_d_subway /\ hist[2].layer = 0
    /\ HistName(3) = n_d_wh_sub /\ hist[3].layer = 1
    /\ DOMAIN filesystem = {n_d_subway}
    /\ filesystem[n_d_subway] = HistEntry(2)


---------------------------------------------------------------------------
(* Markers are consumed, specification SpecConsume *)

t_a_wh_bS == t_a_wh_b \o Slash
t_a_wh_b_c == t_a_wh_b \o <<"/", "c">>
t_Sa_wh_b == Slash \o t_a_wh_b
t_a_opq == t_aS \o OpaqueName

\* ordinary entries, markers with and without content, a directory with the
\* name of a marker, an entry inside such a directory
ConsumeInputs ==
    { Item(t_aS, "Dir", <<>>, <<>>),
      Item(t_a_b, "Reg", <<>>, <<1>>),
      Item(t_a_wh_b, "Reg", <<>>, <<2>>),
      Item(t_Sa_wh_b, "Reg", <<>>, <<>>),
      Item(t_a_wh_bS, "Dir", <<>>, <<>>),
      Item(t_a_wh_b_c, "Reg", <<>>, <<1>>),
      Item(t_a_opq, "Reg", <<>>, <<>>) }

\* the export on streams that are read and written without an error, with
\* the history of what was read
NextConsume ==
    \/ FetchImage
    \/ OpenLayer /\ UNCHANGED hist
    \/ \E in \in ConsumeInputs : InsertEntry(in, MaxConsumeOps) /\ Record(in)
    \/ \E in \in ConsumeInputs : Whiteout(in, MaxConsumeOps) /\ Record(in)
    \/ EndOfLayer /\ UNCHANGED hist
    \/ ApplyDone /\ UNCHANGED hist
    \/ SortEntries
    \/ WriteEntry
    \/ WriteDone

SpecConsume == InitExport /\ [][NextConsume]_vars

\* the final component of the path p: what follows its last separator, a
\* trailing separator of a directory's name set aside
FinalComponent(p) ==
    LET s == StripTrailingSlashes(p)
    IN  SubSeq(s, LastSlash(s) + 1, Len(s))

\* the final component of p begins with the deletion-marker prefix
NamesMarker(p) == HasPrefix(FinalComponent(p), WhPrefix)

\* the step that reads an item whose name is that of a marker
NamedMarkerStep ==
    /\ Len(hist') = Len(hist) + 1
    /\ NamesMarker(hist'[Len(hist')].hdr.Name)

\* the step added no entry, changed none, took no content and met no error
NothingStored ==
    /\ DOMAIN filesystem' \subseteq DOMAIN filesystem
    /\ \A k \in DOMAIN filesystem' : filesystem'[k] = filesystem[k]
    /\ pc' = "Applying"
    /\ err' = NoError

\* C32: markers are consumed, never stored: no key of the snapshot and no
\* name of a written entry has a final component that begins with the marker
\* prefix, and the step that reads a marker inserts no entry and reads no
\* content.
C32_MarkersConsumed ==
    /\ [](/\ \A k \in DOMAIN filesystem :
                ~NamesMarker(k) /\ ~NamesMarker(filesystem[k].header.Name)
          /\ \A i \in WrittenIdx : ~NamesMarker(WrittenName(i)))
    /\ [][NamedMarkerStep => NothingStored]_vars

\* C32 witness: the file a/b, then the marker a/.wh.b with content of its
\* own and the directory a/.wh.b/ were read; the archive written has the
\* directory a/ alone.
C32_Witness ==
    /\ Succeeded
    /\ Len(hist) = 3
    /\ HistName(1) = t_aS
    /\ HistName(2) = t_a_wh_b /\ hist[2].data = <<2>>
    /\ HistName(3) = t_a_wh_bS
    /\ Len(written) = 1
    /\ WrittenName(1) = t_aS


---------------------------------------------------------------------------
(* The output file of ExportImageFilesystem, specification SpecFile *)

\* os.Create(outputPath) succeeds: the file exists and is empty, whatever was
\* at the path before (prior); file.Close is deferred
CreateFile(prior) ==
    /\ pc = "Idle"
    /\ outFile.state = "none"
    /\ outFile' = [outFile EXCEPT !.state = "open", !.exists = TRUE, !.kept = FALSE]
    /\ UNCHANGED <<clibVars, credSent, closedStreams, calls, trailer, pc, layerIdx,
                   reading, openStreams, nread, filesystem, hist, sortedEntries,
                   written, err>>

\* os.Create(outputPath) fails: the function returns the error, what was at
\* the path stays
CreateFail(prior) ==
    /\ pc = "Idle"
    /\ outFile.state = "none"
    /\ pc' = "Error"
    /\ err' = [msg |-> "failed to create output file", layer |-> {}, path |-> {}]
    /\ outFile' = [outFile EXCEPT !.state = "failed", !.exists = prior,
                                  !.kept = prior, !.returned = err']
    /\ UNCHANGED <<clibVars, credSent, closedStreams, calls, trailer, layerIdx,
                   reading, openStreams, nread, filesystem, hist, sortedEntries,
                   written>>

\* the result of ExportImageFilesystem after the deferred function ran with
\* closeErr: the value of the return statement; the deferred function assigns
\* to the variable err of the function body, which is not the result
ReturnedAfterClose(ret, closeErr) == ret

\* ExportImageFilesystemToWriter returned: the deferred function calls
\* file.Close, which succeeds or fails, and ExportImageFilesystem returns
CloseFile(closeErr) ==
    /\ pc \in {"Done", "Error"}
    /\ outFile.state = "open"
    /\ outFile' = [outFile EXCEPT !.state = "closed",
                                  !.closes = outFile.closes + 1,
                                  !.closeFailed = closeErr,
                                  !.returned = ReturnedAfterClose(err, closeErr)]
    /\ UNCHANGED <<clibVars, credSent, closedStreams, calls, trailer, pc, layerIdx,
                   reading, openStreams, nread, filesystem, hist, sortedEntries,
                   written, err>>

\* a header tar.Writer.WriteHeader cannot encode in any format: the global
\* extended header of a layer, which the reader hands on with a name
HeaderRefused(h) == h.Typeflag = "XGlobalHeader"

\* one iteration of the loop: tarWriter.WriteHeader refuses the header
\* without writing; writeFilesystemTar returns the error, and the deferred
\* tarWriter.Close, on a writer that met no write error, writes the
\* end-of-archive blocks
WriteHeaderRefused ==
    /\ pc = "Writing"
    /\ Len(written) < Len(sortedEntries)
    /\ HeaderRefused(filesystem[CurrentKey].header)
    /\ filesystem' = TouchHeader(filesystem, CurrentKey)
    /\ pc' = "Error"
    /\ err' = [msg |-> "failed to write header", layer |-> {},
                path |-> {filesystem[CurrentKey].header.Name}]
    /\ trailer' = "written"
    /\ UNCHANGED <<clibVars, outFile, credSent, closedStreams, calls, layerIdx,
                   reading, openStreams, nread, hist, sortedEntries, written>>

t_p == <<"p">>

FileInputs ==
    { Item(t_aS, "Dir", <<>>, <<>>),
      Item(t_a_b, "Reg", <<>>, <<1>>),
      Item(t_p, "XGlobalHeader", <<>>, <<>>) }

\* the file is open: ExportImageFilesystemToWriter runs
FileOpen == outFile.state = "open"

\* the header the writer is at is one it can encode
Encodable ==
    /\ pc = "Writing"
    /\ Len(written) < Len(sortedEntries)
    /\ ~HeaderRefused(filesystem[CurrentKey].header)

\* ExportImageFilesystem: the file is created, the export runs on it, the
\* file is closed
NextFile ==
    \/ \E prior \in BOOLEAN : CreateFile(prior)
    \/ \E prior \in BOOLEAN : CreateFail(prior)
    \/ FileOpen /\ FetchImage
    \/ FileOpen /\ ParseFail
    \/ FileOpen /\ FetchFail
    \/ FileOpen /\ LayersFail
    \/ FileOpen /\ OpenLayer /\ UNCHANGED hist
    \/ FileOpen /\ OpenLayerFail /\ UNCHANGED hist
    \/ \E in \in FileInputs : FileOpen /\ InsertEntry(in, MaxFileOps) /\ UNCHANGED hist
    \/ FileOpen /\ EndOfLayer /\ UNCHANGED hist
    \/ FileOpen /\ ReadFail /\ UNCHANGED hist
    \/ FileOpen /\ ReadDataFail /\ UNCHANGED hist
    \/ FileOpen /\ ApplyDone /\ UNCHANGED hist
    \/ FileOpen /\ SortEntries
    \/ FileOpen /\ Encodable /\ WriteEntry
    \/ FileOpen /\ Encodable /\ WriteHeaderFail
    \/ FileOpen /\ Encodable /\ WriteDataFail
    \/ FileOpen /\ WriteHeaderRefused
    \/ FileOpen /\ WriteDone
    \/ FileOpen /\ CloseFail
    \/ \E closeErr \in BOOLEAN : CloseFile(closeErr)

SpecFile == InitExport /\ [][NextFile]_vars

\* ExportImageFilesystem returned after it had created the file
ReturnedWithFile == outFile.state = "closed"

\* C33 (as claimed): when the export succeeded and closing the output file
\* fails, ExportImageFilesystem returns the error "failed to close output
\* file"; the file is closed exactly once on every return after its creation.
C33_CloseErrorReturned ==
    ReturnedWithFile =>
        /\ outFile.closes = 1
        /\ (err = NoError /\ outFile.closeFailed) =>
              outFile.returned.msg = "failed to close output file"


\* ExportImageFilesystem returned an error after it had created the file
FailedWithFile == ReturnedWithFile /\ outFile.returned # NoError

\* the failures that come before writeFilesystemTar is called
EarlyFailure ==
    err.msg \in {"failed to parse image reference", "failed to fetch image",
                 "failed to get image layers", "failed to get layer content",
                 "failed to read layer tar", "failed to read file data"}

\* the file holds what the sink had when the export failed and nothing that
\* was written after it: no end-of-archive blocks
OnlyBytesBeforeFailure ==
    /\ outFile.exists
    /\ ~outFile.kept
    /\ trailer = "none"
    /\ EarlyFailure => written = <<>>

\* a step leaves the file where it is and takes nothing out of it
FileStays ==
    /\ outFile.exists /\ outFile.state # "none" => outFile'.exists
    /\ outFile.state = "open" => WrittenKept

\* C34 (as claimed): the file is created, empty, before the reference is
\* parsed or a layer is read; it is never removed or rolled back; after a
\* failed call that had created it, the file exists and holds only the bytes
\* written before the failure, none after a parse, fetch or layer failure.
C34_FileLeftAsWritten ==
    /\ []((pc # "Idle" /\ outFile.state # "failed") => outFile.state # "none")
    /\ [](FailedWithFile => OnlyBytesBeforeFailure)
    /\ [][FileStays]_vars


---------------------------------------------------------------------------
(* The auth_json argument of the C library, specification SpecAuthJson *)

\* the auth_json arguments: empty (or NULL, which C.GoString turns into ""),
\* text that is no JSON, a JSON object with a username and a password, the
\* JSON value null
AuthJsonArgs == {"", "{bad", "{object}", "null"}

\* json.Unmarshal that takes any text
UnmarshalAuth_Lenient(authJSON) == NilError

\* json.Unmarshal([]byte(authJSON), auth): an error for text that is no JSON
UnmarshalAuth(authJSON) ==
    IF authJSON = "{bad" THEN GoError("invalid character in auth json")
    ELSE NilError

\* the auth of the exported functions: nil for the empty argument, an
\* AuthConfig when the argument was parsed
AuthIsNil(authJSON) == authJSON = ""

\* the option GetImageConfig and ExportImageFilesystemToWriter give
\* remote.Image: the given username and password, or the keychain
AuthOption(authIsNil) == IF authIsNil THEN "Keychain" ELSE "Basic"

\* the call returned at the auth_json argument: no exporter, no file, no
\* registry
RejectedArg(fn, authJSON, e) ==
    [fn |-> fn, authJSON |-> authJSON, failure |-> e, exporter |-> FALSE,
     passedNil |-> FALSE, fileCreated |-> FALSE, contacted |-> FALSE,
     option |-> "none"]

\* the call went on to the exporter, with a nil auth for the empty argument
Exported(fn, authJSON, e, fileCreated, contacted) ==
    [fn |-> fn, authJSON |-> authJSON, failure |-> e, exporter |-> TRUE,
     passedNil |-> AuthIsNil(authJSON),
     fileCreated |-> fileCreated, contacted |-> contacted,
     option |-> IF contacted THEN AuthOption(AuthIsNil(authJSON)) ELSE "none"]

\* the history gets the call with what it returned and stored
CCalled(c, ret) ==
    /\ Len(ccalls) < MaxAuthCalls
    /\ lastError' = setLastError(c.failure)
    /\ ccalls' = Append(ccalls, [call |-> c, ret |-> ret, stored |-> lastError'])
    /\ UNCHANGED <<clog, threads, exportVars>>

\* get_image_config_json(image_ref, auth_json): refOk is whether the
\* reference parses, rest the error of what follows it
get_image_config_json_call(authJSON, refOk, rest) ==
    LET c == IF authJSON # "" /\ ~UnmarshalAuth(authJSON).isNil
             THEN RejectedArg("get_image_config_json", authJSON, UnmarshalAuth(authJSON))
             ELSE IF ~refOk
             THEN Exported("get_image_config_json", authJSON,
                           GoError("failed to parse image reference"), FALSE, FALSE)
             ELSE Exported("get_image_config_json", authJSON, rest, FALSE, TRUE)
    IN  CCalled(c, IF c.failure.isNil THEN CString("config json") ELSE CNull)

\* export_image_filesystem_to_file(image_ref, output_path, auth_json): created
\* is whether os.Create succeeds
export_image_filesystem_to_file_call(authJSON, created, refOk, rest) ==
    LET c == IF authJSON # "" /\ ~UnmarshalAuth(authJSON).isNil
             THEN RejectedArg("export_image_filesystem_to_file", authJSON,
                              UnmarshalAuth(authJSON))
             ELSE IF ~created
             THEN Exported("export_image_filesystem_to_file", authJSON,
                           GoError("failed to create output file"), FALSE, FALSE)
             ELSE IF ~refOk
             THEN Exported("export_image_filesystem_to_file", authJSON,
                           GoError("failed to parse image reference"), TRUE, FALSE)
             ELSE Exported("export_image_filesystem_to_file", authJSON, rest, TRUE, TRUE)
    IN  CCalled(c, IF c.failure.isNil THEN CInt(0) ELSE CInt(-1))

\* export_image_filesystem_with_options(image_ref, output_path, auth_json,
\* compress, progress_callback) up to its call of the exporter, whose result
\* is export; what the exporter does with the file and the registry is not
\* followed
export_image_filesystem_with_options_call(authJSON, export) ==
    LET c == IF authJSON # "" /\ ~UnmarshalAuth(authJSON).isNil
             THEN RejectedArg("export_image_filesystem_with_options", authJSON,
                              UnmarshalAuth(authJSON))
             ELSE Exported("export_image_filesystem_with_options", authJSON,
                           export, FALSE, FALSE)
    IN  CCalled(c, IF c.failure.isNil THEN CInt(0) ELSE CInt(-1))

\* the errors of a call after the reference was parsed
RestOutcomes == {NilError, GoError("failed to fetch image")}

\* the calls one C caller makes with an auth_json argument
NextAuthJson ==
    \/ \E authJSON \in AuthJsonArgs, refOk \in BOOLEAN, rest \in RestOutcomes :
          get_image_config_json_call(authJSON, refOk, rest)
    \/ \E authJSON \in AuthJsonArgs, created, refOk \in BOOLEAN, rest \in RestOutcomes :
          export_image_filesystem_to_file_call(authJSON, created, refOk, rest)
    \/ \E authJSON \in AuthJsonArgs, export \in RestOutcomes :
          export_image_filesystem_with_options_call(authJSON, export)

SpecAuthJson == InitExport /\ [][NextAuthJson]_vars

\* the argument is a JSON text
ValidJson(authJSON) == authJSON \in {"{object}", "null"}

\* C35: a call whose auth_json is non-empty and no JSON returns failure (NULL
\* or -1) with the parse error stored as last error, and returns before an
\* exporter exists: no registry is contacted, no output file is created or
\* truncated; a call whose auth_json is empty goes on to the exporter and
\* presents no credentials of its own.
C35_AuthJsonParsedFirst ==
    \A i \in DOMAIN ccalls :
        LET c == ccalls[i].call
        IN  /\ (c.authJSON # "" /\ ~ValidJson(c.authJSON)) =>
                  /\ ccalls[i].ret \in {CNull, CInt(-1)}
                  /\ ~c.failure.isNil
                  /\ ccalls[i].stored = "invalid character in auth json"
                  /\ ~c.exporter /\ ~c.contacted /\ ~c.fileCreated
            /\ c.authJSON = "" =>
                  /\ c.exporter
                  /\ c.passedNil
                  /\ c.option # "Basic"
                  /\ (c.fn = "export_image_filesystem_to_file" /\ c.failure.isNil)
                        => c.fileCreated /\ c.contacted

\* C35 witness: an export with an auth_json that is no JSON returned -1, then
\* an export with the empty auth_json ran with the keychain and succeeded.
C35_Witness ==
    /\ Len(ccalls) = 2
    /\ ccalls[1].call.fn = "export_image_filesystem_to_file"
    /\ ccalls[1].call.authJSON = "{bad"
    /\ ccalls[1].ret = CInt(-1)
    /\ ccalls[2].call.fn = "export_image_filesystem_to_file"
    /\ ccalls[2].call.authJSON = ""
    /\ ccalls[2].call.option = "Keychain"
    /\ ccalls[2].ret = CInt(0)
    /\ lastError = ""


---------------------------------------------------------------------------
(* Termination of an export call, specification SpecLive *)

\* the whole export with the history of what was read
NextLive ==
    \/ FetchImage
    \/ ParseFail
    \/ FetchFail
    \/ LayersFail
    \/ OpenLayer /\ UNCHANGED hist
    \/ OpenLayerFail /\ UNCHANGED hist
    \/ \E in \in ConsumeInputs : InsertEntry(in, MaxLiveOps) /\ Record(in)
    \/ \E in \in ConsumeInputs : Whiteout(in, MaxLiveOps) /\ Record(in)
    \/ EndOfLayer /\ UNCHANGED hist
    \/ ReadFail /\ UNCHANGED hist
    \/ ReadDataFail /\ UNCHANGED hist
    \/ ApplyDone /\ UNCHANGED hist
    \/ SortEntries
    \/ WriteEntry
    \/ WriteHeaderFail
    \/ WriteDataFail
    \/ WriteDone
    \/ CloseFail

\* the call is one sequential thread: a statement it has reached is executed,
\* and a read or a write on a finite stream returns
SpecLive == InitExport /\ [][NextLive]_vars /\ WF_vars(NextLive)

\* the call has returned
Returned == pc \in {"Done", "Error"}

\* a step opens a layer that was not opened before, goes on to the next
\* layer and never back, and applies one entry for each entry it reads
ReadOnce ==
    /\ (reading' /\ ~reading) => layerIdx \notin openStreams
    /\ layerIdx' >= layerIdx
    /\ nread' # nread =>
          /\ nread' = nread + 1
          /\ Len(hist') = Len(hist) + 1

\* C36: with layers and streams that end, an export call returns: it reaches
\* Done or Error; every entry of a layer is applied once, no layer is read a
\* second time, and no path of the snapshot is written twice.
C36_Terminates ==
    /\ <>Returned
    /\ [][ReadOnce]_vars
    /\ [](Len(hist) = nread)
    /\ [](\A i, j \in WrittenIdx :
            i # j => cleanPath(WrittenName(i)) # cleanPath(WrittenName(j)))
    /\ [](Len(written) <= Len(sortedEntries))

\* C36 witness: two layers were read to their end, every entry read was
\* applied and the two entries of the snapshot were written.
C36_Witness ==
    /\ Succeeded
    /\ layerIdx = MaxLayers
    /\ nread = MaxLiveOps
    /\ Len(hist) = MaxLiveOps
    /\ hist[1].layer # hist[Len(hist)].layer
    /\ Len(written) = 2


---------------------------------------------------------------------------
(* Keys and header names, specification SpecTar *)

\* the comparator puts the entries e1 and e2 one way round and not the other
Distinguished(e1, e2) == entryLess(e1, e2) # entryLess(e2, e1)

\* C37: every entry of the snapshot is stored under the normalized name of
\* its own header; so entries under two keys have two header names, and the
\* comparator of the sort, which compares header names, orders every two
\* entries of the snapshot one way.
C37_KeyedByName ==
    /\ \A k \in DOMAIN filesystem : k = cleanPath(filesystem[k].header.Name)
    /\ \A k1, k2 \in DOMAIN filesystem :
          k1 # k2 =>
              /\ filesystem[k1].header.Name # filesystem[k2].header.Name
              /\ Distinguished(filesystem[k1], filesystem[k2])

\* C37 witness: a snapshot of three entries, the directory /a/ under the key
\* a/ among them, is about to be sorted.
C37_Witness ==
    /\ pc = "Sorting"
    /\ Cardinality(DOMAIN filesystem) = 3
    /\ t_aS \in DOMAIN filesystem
    /\ filesystem[t_aS].header.Name = t_SaS
    /\ t_a_b \in DOMAIN filesystem

=============================================================================
